---- MODULE Spec2Model ----
(***************************************************************************)
(* Commute Dashboard 2.0: the transit-arrivals pipeline of the API client  *)
(* (src/api.js) and of the application state (src/app.js).                 *)
(*                                                                         *)
(* The module holds three specifications over one set of variables:        *)
(*   SpecNorm     API.getStationArrivals / API.getLineArrivals applied to  *)
(*                one upstream response drawn from a bounded set;          *)
(*   SpecTransit  App.fetchTransitData, one action per resumption of the   *)
(*                async function (one awaited platform request each), with *)
(*                the line maps it builds kept in a heap of objects;       *)
(*   SpecApp      the refresh machinery of App (init, timers, manual       *)
(*                refresh, changeStation, toggleAvoidHighways), with the   *)
(*                data of a response abstracted to the request it answers. *)
(* A specification leaves the variables of the other two at their idle     *)
(* values.                                                                 *)
(***************************************************************************)
EXTENDS Integers, Sequences, FiniteSets, TLC

VARIABLES
    call,           \* SpecNorm: the arguments of the call and the upstream response
    result,         \* SpecNorm: what getLineArrivals resolved to
    transitData,    \* App.state.transitData: line id -> reference to a line map
    heap,           \* the objects transitData and the running fetch refer to
    ftd,            \* SpecTransit: the frame of the running fetchTransitData
    runs,           \* SpecTransit: fetchTransitData calls started so far
    varied,         \* SpecTransit: requests answered with a non-default response
    clock,          \* SpecTransit: Date.now() / 1000
    got,            \* SpecTransit (history): responses of the line being built
    served,         \* SpecTransit (history): responses each installed line was built from
    loading,        \* App.state.loading
    theme,          \* App.state.theme
    avoidHighways,  \* App.state.avoidHighways
    selectedStation,\* App.state.selectedStation
    localStorage,   \* the document stored under 'commutePreferences'
    weather,        \* App.state.weather
    driveTime,      \* App.state.driveTime
    vehiclePositions,\* App.state.vehiclePositions
    coords,         \* App.config.locations: which addresses have coordinates
    tasks,          \* SpecApp: the async calls in flight, each at its await
    loads,          \* SpecApp: the loadInitialData calls waiting in Promise.all
    timers,         \* SpecApp: setupAutoRefresh has installed the intervals
    nextReq,        \* SpecApp (history): requests issued so far, per feed
    geoFails,       \* SpecApp: requests answered with a failure so far
    ops,            \* SpecApp: timer ticks and user operations so far
    page,           \* what the last render() put on the page
    renderLog       \* SpecApp (history): calls of render() per refresh cycle

normVars        == <<call, result>>
transitOnlyVars == <<heap, ftd, runs, varied, clock, got, served>>
transitVars     == <<transitData, heap, ftd, runs, varied, clock, got, served>>
appOnlyVars     == <<loading, theme, avoidHighways, selectedStation, localStorage, weather,
                     driveTime, vehiclePositions, coords, tasks, loads, timers, nextReq,
                     geoFails, ops, page, renderLog>>

vars == <<normVars, transitVars, appOnlyVars>>

(***************************************************************************)
(* Bounds of the model.                                                    *)
(***************************************************************************)
MaxLen    == 2      \* SpecNorm: entries in an upstream arrivals list
MaxRuns   == 2      \* SpecTransit: calls of fetchTransitData
MaxVaried == 1      \* SpecTransit: requests per behaviour answered other than by DefaultResponse
MaxOps    == 2      \* SpecApp: timer ticks and user operations after init()
MaxGeoFails == 1    \* SpecApp: requests (geocoding and feeds) answered with a failure
MaxInFlight == 5    \* SpecApp: async calls in flight at once

(***************************************************************************)
(* JavaScript values.  A number n is Num(n); undefined and NaN are values  *)
(* of their own, so that `a || b` and arithmetic on a missing field are    *)
(* computed as JavaScript computes them.                                   *)
(***************************************************************************)
Undefined == <<>>
NaN       == <<"NaN">>
Num(n)    == <<"num", n>>
IsNum(x)  == Len(x) = 2
ValueOf(x) == x[2]

\* ToBoolean: undefined, NaN and 0 are falsy
Truthy(x) == IsNum(x) /\ ValueOf(x) # 0

\* a || b
OrElse(a, b) == IF Truthy(a) THEN a ELSE b

\* a - b on numbers; NaN when an operand is undefined or NaN
Minus(a, b) == IF IsNum(a) /\ IsNum(b) THEN Num(ValueOf(a) - ValueOf(b)) ELSE NaN

\* Math.round(x / 60): floor(x / 60 + 1/2); NaN stays NaN
RoundDiv60(x) == IF IsNum(x) THEN Num((ValueOf(x) + 30) \div 60) ELSE NaN

\* the completion of a call: a returned value or a thrown error
Return(v) == [threw |-> FALSE, value |-> v]
Throw     == [threw |-> TRUE]

(***************************************************************************)
(* Configuration (App.config).                                             *)
(***************************************************************************)
lines == <<"117N", "113G", "113B">>
LineIds == {lines[i] : i \in 1..Len(lines)}

station(id, name) == [id |-> id, name |-> name]

stations == [l \in LineIds |->
    CASE l = "117N" -> << station("35365", "Eastlake & 124th"),
                          station("35254", "112th / Northglenn"),
                          station("35246", "48th & Brighton"),
                          station("34668", "Union Station") >>
      [] l = "113G" -> << station("34510", "Ward Station / Wheat Ridge"),
                          station("34541", "Olde Town Arvada"),
                          station("34525", "Gold Strike"),
                          station("34544", "Pecos Junction"),
                          station("34781", "Union Station") >>
      [] l = "113B" -> << station("34560", "Westminster"),
                          station("34544", "Pecos Junction"),
                          station("34782", "Union Station") >> ]

nLinePlatformsMutant == [s \in {"35365", "35254", "35246", "34668"} |->
    CASE s = "35365" -> [platforms |-> <<"35365">>, directions |-> {"northbound", "southbound"}]
      [] s = "35254" -> [platforms |-> <<"35254", "35255">>, directions |-> {"northbound", "southbound"}]
      [] s = "35246" -> [platforms |-> <<"35246", "35247">>, directions |-> {"northbound", "southbound"}]
      [] s = "34668" -> [platforms |-> <<"34668">>, directions |-> {"northbound", "southbound"}] ]

nLinePlatforms == [s \in {"35365", "35254", "35246", "34668"} |->
    CASE s = "35365" -> [platforms |-> <<"35365">>, directions |-> {"southbound"}]
      [] s = "35254" -> [platforms |-> <<"35254", "35255">>, directions |-> {"northbound", "southbound"}]
      [] s = "35246" -> [platforms |-> <<"35246", "35247">>, directions |-> {"northbound", "southbound"}]
      [] s = "34668" -> [platforms |-> <<"34668">>, directions |-> {"northbound"}] ]

(***************************************************************************)
(* Upstream responses.  A request either fails in the transport            *)
(* (NetworkError) or gets an HTTP response with a status and a JSON body.  *)
(* An entry of body.arrivals is a record of the fields the feed sends, or  *)
(* JSON null.                                                              *)
(***************************************************************************)
NetworkError == [type |-> "error"]
HttpResponse(status, body) == [type |-> "http", status |-> status, body |-> body]
JsonNull == [json |-> "null"]

arrivalEntry(routeId, directionId, tripId, arrivalTime, departureTime) ==
    [routeId |-> routeId, directionId |-> directionId, tripId |-> tripId,
     arrivalTime |-> arrivalTime, departureTime |-> departureTime]

\* API.fetch: throws on a transport error and on a non-2xx status, else
\* returns the parsed body
APIfetch(response) ==
    IF response.type = "error" THEN Throw
    ELSE IF ~(response.status >= 200 /\ response.status <= 299) THEN Throw
    ELSE Return(response.body)

(***************************************************************************)
(* Array helpers.                                                          *)
(***************************************************************************)
\* the comparator (a, b) => a.time - b.time; a NaN result counts as 0
CompareTime(a, b) ==
    IF IsNum(a.time) /\ IsNum(b.time) THEN ValueOf(a.time) - ValueOf(b.time) ELSE 0

RECURSIVE InsertByTime(_, _)
InsertByTime(sorted, x) ==
    IF sorted = <<>> THEN <<x>>
    ELSE IF CompareTime(sorted[Len(sorted)], x) > 0
         THEN Append(InsertByTime(SubSeq(sorted, 1, Len(sorted) - 1), x), sorted[Len(sorted)])
    ELSE Append(sorted, x)

RECURSIVE SortByTime(_)
\* Array.prototype.sort((a, b) => a.time - b.time): a stable sort
SortByTime(s) ==
    IF s = <<>> THEN <<>>
    ELSE InsertByTime(SortByTime(SubSeq(s, 1, Len(s) - 1)), s[Len(s)])

\* a cap that keeps the last n entries
SliceLast(s, n) == SubSeq(s, IF Len(s) < n THEN 1 ELSE Len(s) - n + 1, Len(s))

\* Array.prototype.slice(0, n)
Slice(s, n) == SubSeq(s, 1, IF Len(s) < n THEN Len(s) ELSE n)

(***************************************************************************)
(* API.getStationArrivals and API.getLineArrivals (src/api.js).            *)
(***************************************************************************)
\* the filter callback of getStationArrivals, left out
routeMatchesMutant(arrival, routeId) == TRUE

\* the filter callback of getStationArrivals
routeMatches(arrival, routeId) == arrival.routeId = routeId

\* the map callback with `time` counted from the time of the call
normalizeArrivalMutant(arrival, now) ==
    [time        |-> Minus(OrElse(arrival.arrivalTime, arrival.departureTime), Num(now)),
     routeId     |-> arrival.routeId,
     directionId |-> arrival.directionId,
     tripId      |-> arrival.tripId,
     minutesAway |-> RoundDiv60(Minus(arrival.arrivalTime, Num(now)))]

\* the map callback of getStationArrivals
normalizeArrival(arrival, now) ==
    [time        |-> OrElse(arrival.arrivalTime, arrival.departureTime),
     routeId     |-> arrival.routeId,
     directionId |-> arrival.directionId,
     tripId      |-> arrival.tripId,
     minutesAway |-> RoundDiv60(Minus(arrival.arrivalTime, Num(now)))]

\* the catch branch of getStationArrivals
fallbackArrivals(stopId, now) ==
    [stopId |-> stopId, stopName |-> stopId, arrivals |-> <<>>,
     timestamp |-> now * 1000, _isFallback |-> TRUE]

\* getStationArrivals with a catch branch that rethrows
getStationArrivalsMutant(stopId, routeId, response, now) ==
    LET fetched == APIfetch(response) IN
    IF fetched.threw THEN Throw
    ELSE
      LET data == fetched.value
          raw  == IF "arrivals" \in DOMAIN data THEN data.arrivals ELSE <<>>
      IN IF \E i \in 1..Len(raw) : raw[i] = JsonNull
         THEN Throw
         ELSE
           LET kept   == SelectSeq(raw, LAMBDA arrival : routeMatches(arrival, routeId))
               mapped == [i \in 1..Len(kept) |-> normalizeArrival(kept[i], now)]
           IN Return([stopId      |-> stopId,
                      stopName    |-> IF "stopName" \in DOMAIN data THEN data.stopName ELSE stopId,
                      arrivals    |-> SortByTime(mapped),
                      timestamp   |-> data.timestamp,
                      _isFallback |-> FALSE])

\* getStationArrivals: the completion of the async function.  Reading a
\* field of a null entry throws a TypeError inside the try block.
getStationArrivals(stopId, routeId, response, now) ==
    LET fetched == APIfetch(response) IN
    IF fetched.threw THEN Return(fallbackArrivals(stopId, now))
    ELSE
      LET data == fetched.value
          raw  == IF "arrivals" \in DOMAIN data THEN data.arrivals ELSE <<>>
      IN IF \E i \in 1..Len(raw) : raw[i] = JsonNull
         THEN Return(fallbackArrivals(stopId, now))
         ELSE
           LET kept   == SelectSeq(raw, LAMBDA arrival : routeMatches(arrival, routeId))
               mapped == [i \in 1..Len(kept) |-> normalizeArrival(kept[i], now)]
           IN Return([stopId      |-> stopId,
                      stopName    |-> IF "stopName" \in DOMAIN data THEN data.stopName ELSE stopId,
                      arrivals    |-> SortByTime(mapped),
                      timestamp   |-> data.timestamp,
                      _isFallback |-> FALSE])

\* a direction filter that takes every arrival not of the other direction
byDirectionMutant(arrivals, directionId) ==
    SelectSeq(arrivals, LAMBDA a : a.directionId # 1 - directionId)

\* the direction filter of getLineArrivals
byDirection(arrivals, directionId) ==
    SelectSeq(arrivals, LAMBDA a : a.directionId = directionId)

\* getLineArrivals: the completion of the async function
getLineArrivals(stopId, routeId, response, now) ==
    LET c == getStationArrivals(stopId, routeId, response, now) IN
    IF c.threw THEN Throw
    ELSE Return([northbound |-> Slice(byDirection(c.value.arrivals, 0), 3),
                 southbound |-> Slice(byDirection(c.value.arrivals, 1), 3)] @@ c.value)

(***************************************************************************)
(* SpecNorm: one call of API.getLineArrivals (and so of                    *)
(* API.getStationArrivals) on an upstream response drawn from a bounded    *)
(* set.                                                                    *)
(***************************************************************************)
\* Date.now() / 1000 at the time of the call
NowValues == {1000, 1015}

\* the time fields an upstream entry can carry: arrival only (past, near,
\* far), departure only, and both
NormTimes == { <<Num(910), Undefined>>, <<Num(1030), Undefined>>,
               <<Num(1120), Undefined>>, <<Undefined, Num(1240)>>,
               <<Num(1600), Num(1630)>> }

NormEntries ==
    { arrivalEntry(r, d, 0, t[1], t[2]) : r \in {"117N", "113G"}, d \in {0, 1}, t \in NormTimes }
    \cup { arrivalEntry("117N", 2, 0, Num(1120), Undefined) }

\* the arrivals lists of at most MaxLen entries; the trip id of an entry is
\* its place in the feed
NormLists ==
    UNION { { [i \in 1..n |-> [f[i] EXCEPT !.tripId = i]] : f \in [1..n -> NormEntries] }
            : n \in 0..MaxLen }

feedBody(arrivals) == [stopName |-> "Station", timestamp |-> 1000000, arrivals |-> arrivals]

\* feeds longer than the cap of getLineArrivals: four northbound trains of
\* the N line, without and with an entry of unknown direction before them
LongLists ==
    { << arrivalEntry("117N", 0, 1, Num(1120), Undefined),
         arrivalEntry("117N", 0, 2, Num(1180), Undefined),
         arrivalEntry("117N", 1, 3, Num(1240), Undefined),
         arrivalEntry("117N", 0, 4, Num(1300), Undefined),
         arrivalEntry("117N", 0, 5, Num(1360), Undefined) >>,
      << arrivalEntry("117N", 0, 1, Num(1120), Undefined),
         arrivalEntry("117N", 2, 2, Num(1030), Undefined),
         arrivalEntry("117N", 0, 3, Num(1180), Undefined),
         arrivalEntry("117N", 3, 4, Num(1150), Undefined),
         arrivalEntry("117N", 0, 5, Num(1300), Undefined),
         arrivalEntry("117N", 0, 6, Num(1360), Undefined) >> }

NormResponses ==
    { HttpResponse(200, feedBody(a)) : a \in NormLists \cup LongLists }
    \cup { NetworkError,
           HttpResponse(503, [error |-> "RTD API error"]),
           HttpResponse(200, [timestamp |-> 1000000]),
           HttpResponse(200, feedBody(<<JsonNull>>)) }

NoResult == <<>>

TransitIdle ==
    /\ transitData = [l \in LineIds |-> Undefined]
    /\ heap = <<>>
    /\ ftd = [pc |-> "idle", lineIdx |-> 0, stationIdx |-> 0, platformIdx |-> 0,
              lineData |-> Undefined, allNorthbound |-> <<>>, allSouthbound |-> <<>>]
    /\ runs = 0
    /\ varied = 0
    /\ clock = 1000
    /\ got = <<>>
    /\ served = [l \in LineIds |-> <<>>]

AppIdle ==
    /\ loading = [initial |-> TRUE, weather |-> FALSE, drive |-> FALSE, transit |-> FALSE]
    /\ theme = "dark"
    /\ avoidHighways = FALSE
    /\ selectedStation = [l \in LineIds |-> Undefined]
    /\ localStorage = Undefined
    /\ weather = Undefined
    /\ driveTime = [morning |-> Undefined, evening |-> Undefined]
    /\ vehiclePositions = Undefined
    /\ coords = <<>>
    /\ tasks = {}
    /\ loads = {}
    /\ timers = FALSE
    /\ nextReq = <<>>
    /\ geoFails = 0
    /\ ops = 0
    /\ page = "none"
    /\ renderLog = <<>>

InitNorm ==
    /\ AppIdle
    /\ call \in [stopId : {"35254"}, routeId : {"117N", "113G"},
                 response : NormResponses, now : NowValues]
    /\ result = NoResult
    /\ TransitIdle

\* await API.getLineArrivals(stopId, routeId)
CallGetLineArrivals ==
    /\ result = NoResult
    /\ result' = getLineArrivals(call.stopId, call.routeId, call.response, call.now)
    /\ UNCHANGED <<call, transitVars, appOnlyVars>>

NextNorm == CallGetLineArrivals

SpecNorm == InitNorm /\ [][NextNorm]_vars

(***************************************************************************)
(* SpecTransit: App.fetchTransitData (src/app.js).  The async function     *)
(* runs from one await to the next in one action: Start runs it up to the  *)
(* first awaited API.getLineArrivals, Resume runs it from the response of  *)
(* the awaited request up to the next await or to its end.                 *)
(*                                                                         *)
(* `const lineData = {}` is an object of the heap; state.transitData holds *)
(* references to such objects.  Objects nothing refers to are dropped.     *)
(***************************************************************************)
otherRoute(lineId) == IF lineId = "117N" THEN "113G" ELSE "117N"

\* what the feed of a platform answers unless the request is a varied one:
\* two northbound trains and a southbound one of the requested line
DefaultResponse(stopId, lineId) ==
    HttpResponse(200, feedBody(<<
        arrivalEntry(lineId, 0, <<stopId, 1>>, Num(1120), Undefined),
        arrivalEntry(lineId, 1, <<stopId, 2>>, Num(1300), Undefined),
        arrivalEntry(lineId, 0, <<stopId, 3>>, Num(1600), Undefined) >>))

\* the other answers: transport error, non-2xx, no arrivals field, a feed
\* out of time order with another route, an unknown direction and a
\* departure-only entry, four trains of one direction, a null entry
VariedResponses(stopId, lineId) ==
    { NetworkError,
      HttpResponse(503, [error |-> "RTD API error"]),
      HttpResponse(200, [timestamp |-> 1000000]),
      HttpResponse(200, feedBody(<<
          arrivalEntry(lineId, 0, <<stopId, 1>>, Num(1900), Undefined),
          arrivalEntry(otherRoute(lineId), 0, <<stopId, 2>>, Num(1060), Undefined),
          arrivalEntry(lineId, 2, <<stopId, 3>>, Num(1200), Undefined),
          arrivalEntry(lineId, 1, <<stopId, 4>>, Undefined, Num(1240)),
          arrivalEntry(lineId, 0, <<stopId, 5>>, Num(1030), Undefined) >>)),
      HttpResponse(200, feedBody(<<
          arrivalEntry(lineId, 0, <<stopId, 1>>, Num(1060), Undefined),
          arrivalEntry(lineId, 0, <<stopId, 2>>, Num(1180), Undefined),
          arrivalEntry(lineId, 0, <<stopId, 3>>, Num(1420), Undefined),
          arrivalEntry(lineId, 0, <<stopId, 4>>, Num(1720), Undefined) >>)),
      HttpResponse(200, feedBody(<<
          arrivalEntry(lineId, 0, <<stopId, 1>>, Num(1120), Undefined),
          JsonNull >>)) }

\* `lineId === '117N' && this.config.nLinePlatforms[station.id]`
isNLineStation(lineId, st) == lineId = "117N" /\ st.id \in DOMAIN nLinePlatforms

\* the stop ids fetchTransitData requests for a station, in order
platformIdsOf(lineId, st) ==
    IF isNLineStation(lineId, st) THEN nLinePlatforms[st.id].platforms ELSE <<st.id>>

\* `const lineData = {}` updating the installed map instead of a new one
newLineDataMutant(td, lineId, fresh) == IF td[lineId] # Undefined THEN td[lineId] ELSE fresh

\* `const lineData = {}`: the object the loop body builds the line in
newLineData(td, lineId, fresh) == fresh

\* the combined lists left in arrival order of the platforms
sortCombinedMutant(all) == all

\* `allNorthbound.sort(...)`, `allSouthbound.sort(...)`
sortCombined(all) == SortByTime(all)

\* `if (allowedDirections.includes(d)) all.push(...(list || []))`
pushAllowed(all, allowedDirections, d, list) ==
    IF d \in allowedDirections THEN all \o list ELSE all

idleFrame == [pc |-> "idle", lineIdx |-> 0, stationIdx |-> 0, platformIdx |-> 0,
              lineData |-> Undefined, allNorthbound |-> <<>>, allSouthbound |-> <<>>]

\* the frame at the first await of a station's loop body
stationFrame(i, j, obj) ==
    [pc |-> "await", lineIdx |-> i, stationIdx |-> j, platformIdx |-> 1,
     lineData |-> obj, allNorthbound |-> <<>>, allSouthbound |-> <<>>]

\* the heap with the objects reachable from the state and from the frame
collect(h, td, frame) ==
    LET live == ({td[l] : l \in LineIds} \cup {frame.lineData}) \ {Undefined}
    IN [o \in (DOMAIN h) \cap live |-> h[o]]

\* the heap with `obj` allocated as {} unless it is an object already there
allocate(h, obj) == IF obj \in DOMAIN h THEN h ELSE (obj :> <<>>) @@ h

InitTransit ==
    /\ transitData = [l \in LineIds |-> Undefined]
    /\ heap = <<>>
    /\ ftd = idleFrame
    /\ runs = 0
    /\ varied = 0
    /\ clock = 1000
    /\ got = <<>>
    /\ served = [l \in LineIds |-> <<>>]
    /\ call = <<>>
    /\ result = NoResult
    /\ AppIdle

\* fetchTransitData() up to its first await
StartFetchTransit ==
    /\ ftd.pc \in {"idle", "done", "rejected"}
    /\ runs < MaxRuns
    /\ runs' = runs + 1
    /\ LET obj == newLineData(transitData, lines[1], <<"lineData", runs + 1, 1>>)
       IN /\ ftd' = stationFrame(1, 1, obj)
          /\ heap' = collect(allocate(heap, obj), transitData, ftd')
    /\ got' = <<>>
    /\ UNCHANGED <<transitData, varied, clock, served, normVars, appOnlyVars>>

\* fetchTransitData from the response of the awaited request to the next
\* await, or to the end of the function
ResumeWith(response) ==
    LET lineId      == lines[ftd.lineIdx]
        st          == stations[lineId][ftd.stationIdx]
        platformIds == platformIdsOf(lineId, st)
        platformId  == platformIds[ftd.platformIdx]
        c           == getLineArrivals(platformId, lineId, response, clock)
        got1        == (platformId :> response) @@ got
    IN
    IF c.threw
    THEN /\ ftd' = [idleFrame EXCEPT !.pc = "rejected"]
         /\ heap' = collect(heap, transitData, ftd')
         /\ got' = <<>>
         /\ UNCHANGED <<transitData, served>>
    ELSE
      LET platformData == c.value
          allowedDirections == IF isNLineStation(lineId, st)
                               THEN nLinePlatforms[st.id].directions ELSE {}
          allNorthbound == pushAllowed(ftd.allNorthbound, allowedDirections,
                                       "northbound", platformData.northbound)
          allSouthbound == pushAllowed(ftd.allSouthbound, allowedDirections,
                                       "southbound", platformData.southbound)
      IN
      IF isNLineStation(lineId, st) /\ ftd.platformIdx < Len(platformIds)
      THEN \* the next platform of the station
           /\ ftd' = [ftd EXCEPT !.platformIdx = @ + 1,
                                 !.allNorthbound = allNorthbound,
                                 !.allSouthbound = allSouthbound]
           /\ got' = got1
           /\ UNCHANGED <<transitData, heap, served>>
      ELSE
        LET data  == IF isNLineStation(lineId, st)
                     THEN [northbound |-> sortCombined(allNorthbound),
                           southbound |-> sortCombined(allSouthbound),
                           stopName   |-> st.name]
                     ELSE platformData
            board == [stationName |-> st.name] @@ data
            heap1 == [heap EXCEPT ![ftd.lineData] = (st.id :> board) @@ @]
        IN
        IF ftd.stationIdx < Len(stations[lineId])
        THEN \* the next station of the line
             /\ ftd' = stationFrame(ftd.lineIdx, ftd.stationIdx + 1, ftd.lineData)
             /\ heap' = heap1
             /\ got' = got1
             /\ UNCHANGED <<transitData, served>>
        ELSE \* `this.state.transitData[lineId] = lineData`, then the next line
             /\ transitData' = [transitData EXCEPT ![lineId] = ftd.lineData]
             /\ served' = [served EXCEPT ![lineId] = got1]
             /\ got' = <<>>
             /\ IF ftd.lineIdx < Len(lines)
                THEN LET obj == newLineData(transitData', lines[ftd.lineIdx + 1],
                                            <<"lineData", runs, ftd.lineIdx + 1>>)
                     IN /\ ftd' = stationFrame(ftd.lineIdx + 1, 1, obj)
                        /\ heap' = collect(allocate(heap1, obj), transitData', ftd')
                ELSE /\ ftd' = [idleFrame EXCEPT !.pc = "done"]
                     /\ heap' = collect(heap1, transitData', ftd')

\* the request in flight, at the current await
awaitedStop == platformIdsOf(lines[ftd.lineIdx], stations[lines[ftd.lineIdx]][ftd.stationIdx])[ftd.platformIdx]

\* the awaited request is answered by the default feed
ResumeDefault ==
    /\ ftd.pc = "await"
    /\ ResumeWith(DefaultResponse(awaitedStop, lines[ftd.lineIdx]))
    /\ UNCHANGED <<runs, varied, clock, normVars, appOnlyVars>>

\* the awaited request is answered otherwise
ResumeVaried ==
    /\ ftd.pc = "await"
    /\ varied < MaxVaried
    /\ varied' = varied + 1
    /\ \E response \in VariedResponses(awaitedStop, lines[ftd.lineIdx]) : ResumeWith(response)
    /\ UNCHANGED <<runs, clock, normVars, appOnlyVars>>

NextTransit == StartFetchTransit \/ ResumeDefault \/ ResumeVaried

SpecTransit == InitTransit /\ [][NextTransit]_vars

(***************************************************************************)
(* The boards a reader of App.state.transitData finds, and what the feeds  *)
(* a line was built from amount to.                                        *)
(***************************************************************************)
Installed(lineId) == transitData[lineId] # Undefined

\* state.transitData[lineId][stationId]
boardOf(lineId, stationId) == heap[transitData[lineId]][stationId]

stationIdsOf(lineId) == {stations[lineId][j].id : j \in 1..Len(stations[lineId])}

RECURSIVE Flatten(_)
Flatten(ss) == IF ss = <<>> THEN <<>> ELSE Head(ss) \o Flatten(Tail(ss))

\* the request failed, or its payload cannot be processed
unprocessable(response) ==
    \/ APIfetch(response).threw
    \/ /\ "arrivals" \in DOMAIN response.body
       /\ \E i \in 1..Len(response.body.arrivals) : response.body.arrivals[i] = JsonNull

\* what getLineArrivals made of each platform of a station, in platform order
platformResults(lineId, st, feeds, now) ==
    LET ids == platformIdsOf(lineId, st)
    IN [k \in 1..Len(ids) |-> getLineArrivals(ids[k], lineId, feeds[ids[k]], now).value]

\* the arrivals of one direction over the platforms of a station, in platform order
combined(lineId, st, feeds, now, d) ==
    LET rs == platformResults(lineId, st, feeds, now)
    IN Flatten([k \in 1..Len(rs) |-> rs[k][d]])

\* the board of a station as its own feeds determine it
expectedBoard(lineId, st, feeds, now) ==
    LET rs == platformResults(lineId, st, feeds, now) IN
    IF isNLineStation(lineId, st)
    THEN LET allowed == nLinePlatforms[st.id].directions
         IN [northbound  |-> IF "northbound" \in allowed
                             THEN SortByTime(Flatten([k \in 1..Len(rs) |-> rs[k].northbound]))
                             ELSE <<>>,
             southbound  |-> IF "southbound" \in allowed
                             THEN SortByTime(Flatten([k \in 1..Len(rs) |-> rs[k].southbound]))
                             ELSE <<>>,
             stopName    |-> st.name,
             stationName |-> st.name]
    ELSE [stationName |-> st.name] @@ rs[1]

IsNonDecreasing(list) ==
    \A i \in 1..(Len(list) - 1) :
        /\ IsNum(list[i].time) /\ IsNum(list[i + 1].time)
        /\ ValueOf(list[i].time) <= ValueOf(list[i + 1].time)

(***************************************************************************)
(* C2.  No reader observes a half-built board: every line installed in     *)
(* state.transitData is, in every state, a map with a complete and final   *)
(* board for each station of the line; an installed line map is never      *)
(* written to again, and a line's entry is only ever replaced by a         *)
(* reference to another, newly built map.                                  *)
(***************************************************************************)
C2_BoardsComplete ==
    \A l \in LineIds :
        Installed(l) =>
            /\ transitData[l] \in DOMAIN heap
            /\ DOMAIN heap[transitData[l]] = stationIdsOf(l)
            /\ \A j \in 1..Len(stations[l]) :
                 LET b == boardOf(l, stations[l][j].id)
                 IN /\ {"northbound", "southbound"} \subseteq DOMAIN b
                    /\ b = expectedBoard(l, stations[l][j], served[l], clock)

C2_ReplacedWholesale ==
    \A l \in LineIds :
        Installed(l) =>
            /\ transitData[l] \in DOMAIN heap' => heap'[transitData[l]] = heap[transitData[l]]
            /\ transitData'[l] # transitData[l] =>
                 transitData'[l] \notin {transitData[k] : k \in LineIds}

C2_NoHalfBuiltBoard == [](C2_BoardsComplete) /\ [][C2_ReplacedWholesale]_vars

\* a second fetch is part-way through building a line that is installed
C2_Witness ==
    /\ ftd.pc = "await"
    /\ Installed(lines[ftd.lineIdx])
    /\ ftd.lineData # transitData[lines[ftd.lineIdx]]
    /\ DOMAIN heap[ftd.lineData] # {}
    /\ DOMAIN heap[ftd.lineData] # stationIdsOf(lines[ftd.lineIdx])

(***************************************************************************)
(* C3.  Direction inclusion per platform: at a station of two platforms,   *)
(* one serving northbound and the other southbound, the northbound list is *)
(* what the one platform reported northbound and the southbound list what  *)
(* the other reported southbound.                                          *)
(***************************************************************************)
C3_PerPlatformDirections ==
    Installed("117N") =>
        \A j \in 1..Len(stations["117N"]) :
            LET st == stations["117N"][j]
                rs == platformResults("117N", st, served["117N"], clock)
                b  == boardOf("117N", st.id)
            IN Len(rs) = 2 =>
                 \/ b.northbound = rs[1].northbound /\ b.southbound = rs[2].southbound
                 \/ b.northbound = rs[2].northbound /\ b.southbound = rs[1].southbound

(***************************************************************************)
(* C4.  Terminus exclusion: the board of Eastlake (35365, southbound only) *)
(* has no northbound arrivals and the board of Union (34668, northbound    *)
(* only) no southbound ones, whatever their platforms report.              *)
(***************************************************************************)
C4_TerminusExclusion ==
    Installed("117N") =>
        /\ boardOf("117N", "35365").northbound = <<>>
        /\ boardOf("117N", "34668").southbound = <<>>

\* both termini reported trains of the direction they do not serve
C4_Witness ==
    /\ Installed("117N")
    /\ combined("117N", stations["117N"][1], served["117N"], clock, "northbound") # <<>>
    /\ combined("117N", stations["117N"][4], served["117N"], clock, "southbound") # <<>>

C6_AtMostThree ==
    \A l \in LineIds :
        Installed(l) =>
            \A j \in 1..Len(stations[l]) :
                /\ Len(boardOf(l, stations[l][j].id).northbound) <= 3
                /\ Len(boardOf(l, stations[l][j].id).southbound) <= 3

(***************************************************************************)
(* C9.  A station any of whose platform requests failed (transport error   *)
(* or non-2xx) has a board flagged _isFallback: true.                      *)
(***************************************************************************)
C9_FallbackFlagged ==
    \A l \in LineIds :
        Installed(l) =>
            \A j \in 1..Len(stations[l]) :
                LET st  == stations[l][j]
                    ids == platformIdsOf(l, st)
                    b   == boardOf(l, st.id)
                IN (\E k \in 1..Len(ids) : APIfetch(served[l][ids[k]]).threw) =>
                       /\ "_isFallback" \in DOMAIN b
                       /\ b._isFallback = TRUE

(***************************************************************************)
(* C10.  Failure isolation: fetchTransitData never rejects and, once it    *)
(* has ended, all three lines are installed; a station all of whose        *)
(* requests failed or could not be processed has no arrivals, and every    *)
(* station's lists are those its own feeds determine.                      *)
(***************************************************************************)
C10_FailureIsolation ==
    /\ ftd.pc # "rejected"
    /\ ftd.pc = "done" => \A l \in LineIds : Installed(l)
    /\ \A l \in LineIds :
         Installed(l) =>
            \A j \in 1..Len(stations[l]) :
                LET st  == stations[l][j]
                    ids == platformIdsOf(l, st)
                    b   == boardOf(l, st.id)
                    e   == expectedBoard(l, st, served[l], clock)
                IN /\ (\A k \in 1..Len(ids) : unprocessable(served[l][ids[k]])) =>
                          b.northbound = <<>> /\ b.southbound = <<>>
                   /\ b.northbound = e.northbound
                   /\ b.southbound = e.southbound

\* the fetch has ended, a station of the first line failed and stations of
\* the same line and of the other lines have arrivals
C10_Witness ==
    /\ ftd.pc = "done"
    /\ unprocessable(served["117N"]["35365"])
    /\ boardOf("117N", "35254").northbound # <<>>
    /\ boardOf("113G", "34510").northbound # <<>>
    /\ boardOf("113B", "34782").southbound # <<>>

(***************************************************************************)
(* Claims about API.getStationArrivals, under SpecNorm.                    *)
(***************************************************************************)
\* body.arrivals of a response the client can process, else no entries
upstreamArrivals(response) ==
    IF ~unprocessable(response) /\ "arrivals" \in DOMAIN response.body
    THEN response.body.arrivals ELSE <<>>

(***************************************************************************)
(* C7.  Every arrival getStationArrivals returns has                       *)
(* minutesAway = round((time - now) / 60), time being the entry's          *)
(* arrivalTime or, when that is missing, its departureTime.                *)
(***************************************************************************)
C7_MinutesAway ==
    result # NoResult =>
        \A i \in 1..Len(result.value.arrivals) :
            LET a == result.value.arrivals[i]
            IN a.minutesAway = Num((ValueOf(a.time) - call.now + 30) \div 60)

(***************************************************************************)
(* C8.  Route filter: the arrivals returned for a response the client can  *)
(* process are those upstream entries whose routeId is the requested one,  *)
(* all of them and no others, and the result is not the fallback.          *)
(***************************************************************************)
C8_RouteFilter ==
    (result # NoResult /\ ~unprocessable(call.response)) =>
        LET up     == upstreamArrivals(call.response)
            out    == result.value.arrivals
            wanted == {up[i].tripId : i \in {j \in 1..Len(up) : up[j].routeId = call.routeId}}
        IN /\ \A i \in 1..Len(out) : out[i].routeId = call.routeId
           /\ {out[i].tripId : i \in 1..Len(out)} = wanted
           /\ Len(out) = Cardinality(wanted)
           /\ result.value._isFallback = FALSE
           /\ \A i \in 1..Len(result.value.northbound) :
                  result.value.northbound[i].routeId = call.routeId
           /\ \A i \in 1..Len(result.value.southbound) :
                  result.value.southbound[i].routeId = call.routeId

\* a feed of two routes, of which some but not all entries were returned
C8_Witness ==
    /\ result # NoResult
    /\ result.value._isFallback = FALSE
    /\ Len(result.value.arrivals) > 0
    /\ Len(result.value.arrivals) < Len(upstreamArrivals(call.response))

\* the response without the entries whose directionId is neither 0 nor 1
withoutUnknownDirections(response) ==
    [response EXCEPT !.body.arrivals = SelectSeq(@, LAMBDA a : a.directionId \in {0, 1})]

(***************************************************************************)
(* C15.  An arrival whose directionId is neither 0 nor 1 is in neither     *)
(* list of getLineArrivals, and both lists are what they would be had the  *)
(* feed not held it.                                                       *)
(***************************************************************************)
C15_UnknownDirectionExcluded ==
    (result # NoResult /\ ~unprocessable(call.response)
       /\ "arrivals" \in DOMAIN call.response.body) =>
        LET without == getLineArrivals(call.stopId, call.routeId,
                                       withoutUnknownDirections(call.response), call.now).value
        IN /\ \A i \in 1..Len(result.value.northbound) :
                 result.value.northbound[i].directionId = 0
           /\ \A i \in 1..Len(result.value.southbound) :
                 result.value.southbound[i].directionId = 1
           /\ result.value.northbound = without.northbound
           /\ result.value.southbound = without.southbound

\* a feed of the requested route with entries of unknown direction ahead of
\* more northbound trains than the cap lets through
C15_Witness ==
    /\ result # NoResult
    /\ ~unprocessable(call.response)
    /\ \E i \in 1..Len(result.value.arrivals) : result.value.arrivals[i].directionId \notin {0, 1}
    /\ Len(byDirection(result.value.arrivals, 0)) > 3
    /\ Len(result.value.northbound) = 3

(***************************************************************************)
(* SpecDrive: one call of API.getDriveTimes (src/api.js) on an answer of   *)
(* the route provider drawn from a bounded set.  A JavaScript string is    *)
(* Str of the sequence of its characters.                                  *)
(***************************************************************************)
Str(chars) == <<"str", chars>>
IsStr(x)   == Len(x) = 2 /\ x[1] = "str"

Digits == {"0", "1", "2", "3", "4", "5", "6", "7", "8", "9"}

DigitOf(c) ==
    CASE c = "0" -> 0 [] c = "1" -> 1 [] c = "2" -> 2 [] c = "3" -> 3 [] c = "4" -> 4
      [] c = "5" -> 5 [] c = "6" -> 6 [] c = "7" -> 7 [] c = "8" -> 8 [] c = "9" -> 9

RECURSIVE DigitsPrefix(_)
\* the longest prefix of digits of a sequence of characters
DigitsPrefix(chars) ==
    IF chars = <<>> \/ Head(chars) \notin Digits THEN <<>>
    ELSE <<Head(chars)>> \o DigitsPrefix(Tail(chars))

RECURSIVE DecimalOf(_)
DecimalOf(ds) ==
    IF ds = <<>> THEN 0 ELSE 10 * DecimalOf(SubSeq(ds, 1, Len(ds) - 1)) + DigitOf(ds[Len(ds)])

\* parseInt(x) for an unsigned string without leading blanks: the number its
\* leading digits spell, NaN when there are none; NaN for undefined
ParseInt(x) ==
    IF x = Undefined THEN NaN
    ELSE IF DigitsPrefix(x[2]) = <<>> THEN NaN
    ELSE Num(DecimalOf(DigitsPrefix(x[2])))

\* Math.round(meters * 0.000621371); NaN when meters is undefined
MilesOf(meters) ==
    IF meters = Undefined THEN NaN
    ELSE Num((ValueOf(meters) * 621371 + 500000000) \div 1000000000)

\* an entry of data.routes, with the fields of the field mask
routeEntry(duration, distanceMeters, description) ==
    [duration |-> duration, distanceMeters |-> distanceMeters, description |-> description]

\* getFallbackDriveTime without its flag
getFallbackDriveTimeMutant ==
    [minutes |-> Num(30), distance |-> Num(15),
     description |-> Str(<<"E", "s", "t", "i", "m", "a", "t", "e", "d">>),
     _isFallback |-> FALSE]

\* getFallbackDriveTime()
getFallbackDriveTime ==
    [minutes |-> Num(30), distance |-> Num(15),
     description |-> Str(<<"E", "s", "t", "i", "m", "a", "t", "e", "d">>),
     _isFallback |-> TRUE]

\* `data.routes && data.routes[0]`; reading a field of null throws
hasFirstRoute(data) ==
    /\ data # JsonNull
    /\ "routes" \in DOMAIN data
    /\ Len(data.routes) > 0
    /\ data.routes[1] # JsonNull

\* getDriveTimes: the completion of the async function
getDriveTimes(response) ==
    LET fetched == APIfetch(response) IN
    IF fetched.threw THEN Return(getFallbackDriveTime)
    ELSE IF ~hasFirstRoute(fetched.value) THEN Return(getFallbackDriveTime)
    ELSE LET route    == fetched.value.routes[1]
             duration == ParseInt(route.duration)
         IN Return([minutes     |-> RoundDiv60(duration),
                    distance    |-> MilesOf(route.distanceMeters),
                    description |-> IF route.description = Undefined
                                       \/ route.description = Str(<<>>)
                                    THEN Str(<<>>) ELSE route.description,
                    _isFallback |-> FALSE])

DriveDurations == { Str(<<"0", "s">>), Str(<<"2", "9", "s">>), Str(<<"9", "0", "s">>),
                    Str(<<"1", "2", "3", "4", "s">>), Str(<<"s">>), Undefined }

DriveDistances == { Num(0), Num(804), Num(805), Num(2414), Undefined }

DriveDescriptions == { Str(<<"I", "2", "5">>), Str(<<>>), Undefined }

DriveRoutes ==
    { routeEntry(d, m, t) : d \in DriveDurations, m \in DriveDistances, t \in DriveDescriptions }

DriveBodies ==
    { JsonNull, [error |-> "Routes API error"], [routes |-> <<>>], [routes |-> <<JsonNull>>] }
    \cup { [routes |-> <<r>>] : r \in DriveRoutes }
    \cup { [routes |-> <<r, routeEntry(Str(<<"6", "0", "s">>), Num(805), Undefined)>>]
           : r \in {routeEntry(Str(<<"9", "0", "s">>), Num(2414), Undefined)} }

DriveResponses ==
    {NetworkError} \cup { HttpResponse(st, b) : st \in {200, 404, 500}, b \in DriveBodies }

InitDrive ==
    /\ AppIdle
    /\ TransitIdle
    /\ call \in [fn : {"getDriveTimes"}, avoidHighways : BOOLEAN, response : DriveResponses]
    /\ result = NoResult

\* await API.getDriveTimes(origin, destination, avoidHighways)
CallGetDriveTimes ==
    /\ result = NoResult
    /\ result' = getDriveTimes(call.response)
    /\ UNCHANGED <<call, transitVars, appOnlyVars>>

NextDrive == CallGetDriveTimes

SpecDrive == InitDrive /\ [][NextDrive]_vars

\* the route-provider call failed: transport error, non-2xx, or no routes
driveCallFailed(response) ==
    \/ response.type = "error"
    \/ response.status < 200 \/ response.status > 299
    \/ response.body = JsonNull
    \/ "routes" \notin DOMAIN response.body
    \/ response.body.routes = <<>>
    \/ response.body.routes[1] = JsonNull

(***************************************************************************)
(* C11.  getDriveTimes never rejects; it resolves to the fixed fallback    *)
(* (30 minutes, 15 miles, "Estimated", _isFallback true) when the          *)
(* route-provider call failed and with _isFallback false when it did not.  *)
(***************************************************************************)
C11_DriveTimesFallback ==
    result # NoResult =>
        /\ ~result.threw
        /\ driveCallFailed(call.response) =>
             result.value = [minutes |-> Num(30), distance |-> Num(15),
                             description |-> Str(<<"E", "s", "t", "i", "m", "a", "t", "e", "d">>),
                             _isFallback |-> TRUE]
        /\ ~driveCallFailed(call.response) => result.value._isFallback = FALSE
        /\ result.value._isFallback = driveCallFailed(call.response)

\* a 2xx answer without routes was turned into the fallback
C11_Witness ==
    /\ result # NoResult
    /\ call.response.type = "http"
    /\ call.response.status = 200
    /\ call.response.body # JsonNull
    /\ "routes" \in DOMAIN call.response.body
    /\ call.response.body.routes = <<>>
    /\ result.value._isFallback

(***************************************************************************)
(* SpecDecode: the handler of GET /api/rtd/gline/:stopId (src/server.js),  *)
(* which decodes the GTFS-Realtime TripUpdate feed for one stop, followed  *)
(* by API.getStationArrivals on its answer; the same feed is processed     *)
(* twice, at two times of day.  The decoded feed is the object the         *)
(* protobuf bindings hand to the loop; a 64-bit time is a number.  The     *)
(* formatted time of an arrival is left out.                               *)
(***************************************************************************)
MaxUpdates == 2     \* SpecDecode: stop-time updates of a trip

\* `stopUpdate.stopId === stopId` for every stop
stopMatchesMutant(stopUpdate, stopId) == TRUE

\* `stopUpdate.stopId === stopId`
stopMatches(stopUpdate, stopId) == stopUpdate.stopId = stopId

\* `arrival && arrival.time`
hasArrivalTime(stopUpdate) ==
    /\ "arrival" \in DOMAIN stopUpdate
    /\ "time" \in DOMAIN stopUpdate.arrival
    /\ Truthy(stopUpdate.arrival.time)

\* a default that puts a trip without directionId in direction 1
directionOfMutant(trip) ==
    IF "directionId" \in DOMAIN trip /\ trip.directionId # 0 THEN trip.directionId ELSE 1

\* `trip.directionId || 0`
directionOf(trip) ==
    IF "directionId" \in DOMAIN trip /\ trip.directionId # 0 THEN trip.directionId ELSE 0

\* the object pushed for a stop-time update
pushedArrival(trip, stopUpdate, stopId) ==
    [route                |-> trip.routeId,
     routeId              |-> trip.routeId,
     tripId               |-> trip.tripId,
     directionId          |-> directionOf(trip),
     arrivalTime          |-> stopUpdate.arrival.time,
     scheduledArrivalTime |-> stopUpdate.arrival.time,
     status               |-> "Scheduled",
     stopId               |-> stopId]

\* the arrivals the inner loop pushes for one entity, in order
arrivalsOfEntity(entity, stopId) ==
    IF "tripUpdate" \notin DOMAIN entity THEN <<>>
    ELSE LET trip    == entity.tripUpdate.trip
             updates == IF "stopTimeUpdate" \in DOMAIN entity.tripUpdate
                        THEN entity.tripUpdate.stopTimeUpdate ELSE <<>>
             taken   == SelectSeq(updates,
                           LAMBDA u : stopMatches(u, stopId) /\ hasArrivalTime(u))
         IN [k \in 1..Len(taken) |-> pushedArrival(trip, taken[k], stopId)]

RECURSIVE InsertByArrivalTime(_, _)
InsertByArrivalTime(sorted, x) ==
    IF sorted = <<>> THEN <<x>>
    ELSE IF ValueOf(sorted[Len(sorted)].arrivalTime) - ValueOf(x.arrivalTime) > 0
         THEN Append(InsertByArrivalTime(SubSeq(sorted, 1, Len(sorted) - 1), x),
                     sorted[Len(sorted)])
    ELSE Append(sorted, x)

RECURSIVE SortByArrivalTime(_)
\* arrivals.sort((a, b) => a.arrivalTime - b.arrivalTime)
SortByArrivalTime(s) ==
    IF s = <<>> THEN <<>>
    ELSE InsertByArrivalTime(SortByArrivalTime(SubSeq(s, 1, Len(s) - 1)), s[Len(s)])

\* the loop over feed.entity and the sort
decodeArrivals(feed, stopId) ==
    SortByArrivalTime(Flatten([e \in 1..Len(feed.entity) |->
                                  arrivalsOfEntity(feed.entity[e], stopId)]))

\* the handler: what it answers when the feed request got `upstream`; a body
\* that is not a feed message makes decode throw
glineHandler(upstream, stopId, now) ==
    IF upstream.type = "error" THEN HttpResponse(500, [error |-> "Failed to fetch GTFS-RT data"])
    ELSE IF ~(upstream.status >= 200 /\ upstream.status <= 299)
    THEN HttpResponse(500, [error |-> "Failed to fetch GTFS-RT data"])
    ELSE IF upstream.body = JsonNull
    THEN HttpResponse(500, [error |-> "Failed to fetch GTFS-RT data"])
    ELSE LET feed == upstream.body
         IN HttpResponse(200,
                [stopId         |-> stopId,
                 stopName       |-> stopId,
                 timestamp      |-> now * 1000,
                 feedTimestamp  |-> feed.header.timestamp * 1000,
                 feedAgeMinutes |-> (now - feed.header.timestamp) \div 60,
                 arrivals       |-> decodeArrivals(feed, stopId)])

\* the answer of the handler as the client reads it after res.json and
\* response.json: an entry has no departureTime
asReceived(response) ==
    IF response.status # 200 THEN response
    ELSE [response EXCEPT !.body.arrivals =
            [k \in 1..Len(@) |-> arrivalEntry(@[k].routeId, @[k].directionId, @[k].tripId,
                                              @[k].arrivalTime, Undefined)]]

\* one request of the client for a stop of the G or B line: the handler's
\* answer and what getStationArrivals makes of it
requestArrivals(upstream, stopId, routeId, now) ==
    LET answer == glineHandler(upstream, stopId, now)
    IN [server |-> answer,
        client |-> getStationArrivals(stopId, routeId, asReceived(answer), now)]

\* header.timestamp of the feeds
FeedTime == 1000

DecodeStops == {"34510", "34781"}

\* stop-time updates: an arrival 300 s or 60 s after the header time, an
\* arrival without a time, a departure only
StopTimeUpdates ==
    UNION { { [stopId |-> st, arrival |-> [time |-> Num(FeedTime + 300)]],
              [stopId |-> st, arrival |-> [time |-> Num(FeedTime + 60)],
                              departure |-> [time |-> Num(FeedTime + 90)]],
              [stopId |-> st, arrival |-> [delay |-> 60]],
              [stopId |-> st, departure |-> [time |-> Num(FeedTime + 120)]] }
            : st \in DecodeStops }

UpdateLists(n) == UNION { [1..k -> StopTimeUpdates] : k \in 0..n }

\* a feed: a trip of the G line with up to MaxUpdates updates, an entity
\* that is not a trip update, a trip of the B line without directionId
DecodeFeeds ==
    { [header |-> [timestamp |-> FeedTime],
       entity |-> << [id |-> "1",
                      tripUpdate |-> [trip |-> [tripId |-> "G1", routeId |-> "113G",
                                                directionId |-> 1],
                                      stopTimeUpdate |-> us]],
                     [id |-> "2", vehicle |-> [label |-> "301"]],
                     [id |-> "3",
                      tripUpdate |-> [trip |-> [tripId |-> "B1", routeId |-> "113B"],
                                      stopTimeUpdate |-> vs]] >>]
      : us \in UpdateLists(MaxUpdates), vs \in UpdateLists(1) }
    \cup { [header |-> [timestamp |-> FeedTime],
            entity |-> << [id |-> "1",
                           tripUpdate |-> [trip |-> [tripId |-> "G1", routeId |-> "113G",
                                                     directionId |-> 1]]] >>] }

DecodeUpstreams ==
    { HttpResponse(200, f) : f \in DecodeFeeds }
    \cup { NetworkError, HttpResponse(503, JsonNull), HttpResponse(200, JsonNull) }

InitDecode ==
    /\ AppIdle
    /\ TransitIdle
    /\ call \in [stopId : {"34510"}, routeId : {"113G", "113B"},
                 upstream : DecodeUpstreams, nows : {<<1000, 1045>>, <<1030, 1030>>}]
    /\ result = <<>>

\* the client asks for the stop; the feed is the same as at the last request
RequestArrivals ==
    /\ Len(result) < 2
    /\ result' = Append(result, requestArrivals(call.upstream, call.stopId, call.routeId,
                                                call.nows[Len(result) + 1]))
    /\ UNCHANGED <<call, transitVars, appOnlyVars>>

NextDecode == RequestArrivals

SpecDecode == InitDecode /\ [][NextDecode]_vars

\* the stop-time updates of the feed, trip by trip
updatesOfFeed(feed) ==
    Flatten([e \in 1..Len(feed.entity) |->
        IF "tripUpdate" \in DOMAIN feed.entity[e]
           /\ "stopTimeUpdate" \in DOMAIN feed.entity[e].tripUpdate
        THEN [k \in 1..Len(feed.entity[e].tripUpdate.stopTimeUpdate) |->
                 [tripId |-> feed.entity[e].tripUpdate.trip.tripId,
                  update |-> feed.entity[e].tripUpdate.stopTimeUpdate[k]]]
        ELSE <<>>])

\* the feed of the call, when the request for it succeeded
decodedFeed == call.upstream.type = "http" /\ call.upstream.status = 200
               /\ call.upstream.body # JsonNull

(***************************************************************************)
(* C14.  The decode for a stop emits one arrival for each stop-time update *)
(* of that stop that has an arrival time, at that time and for the trip of *)
(* the update, and nothing else; updates of other stops or without an      *)
(* arrival time cause no arrival and no error.                             *)
(***************************************************************************)
C14_OneArrivalPerUpdate ==
    (Len(result) >= 1 /\ decodedFeed) =>
        LET ups  == updatesOfFeed(call.upstream.body)
            want == { k \in 1..Len(ups) :
                        /\ ups[k].update.stopId = call.stopId
                        /\ "arrival" \in DOMAIN ups[k].update
                        /\ "time" \in DOMAIN ups[k].update.arrival }
            out  == result[1].server.body.arrivals
        IN /\ result[1].server.status = 200
           /\ Len(out) = Cardinality(want)
           /\ \A i \in 1..Len(out) : out[i].stopId = call.stopId
           /\ \A k \in want :
                Cardinality({ i \in 1..Len(out) :
                                /\ out[i].tripId = ups[k].tripId
                                /\ out[i].arrivalTime = ups[k].update.arrival.time })
                = Cardinality({ j \in want :
                                /\ ups[j].tripId = ups[k].tripId
                                /\ ups[j].update.arrival.time = ups[k].update.arrival.time })

\* an update of the stop 300 s after the header time was emitted, and the
\* feed held an update of the stop without an arrival and one of another stop
C14_Witness ==
    /\ Len(result) >= 1
    /\ decodedFeed
    /\ \E i \in 1..Len(result[1].server.body.arrivals) :
          result[1].server.body.arrivals[i].arrivalTime = Num(FeedTime + 300)
    /\ LET ups == updatesOfFeed(call.upstream.body)
       IN /\ \E k \in 1..Len(ups) : /\ ups[k].update.stopId = call.stopId
                                    /\ "arrival" \notin DOMAIN ups[k].update
          /\ \E k \in 1..Len(ups) : /\ ups[k].update.stopId # call.stopId
                                    /\ "arrival" \in DOMAIN ups[k].update
    /\ Len(result[1].server.body.arrivals) = 1

\* the fields of an arrival that come from the feed
feedFields(arrivals) ==
    [k \in 1..Len(arrivals) |->
        [routeId |-> arrivals[k].routeId, tripId |-> arrivals[k].tripId,
         directionId |-> arrivals[k].directionId, time |-> arrivals[k].time]]

withDirectionZero(feed) ==
    [feed EXCEPT !.entity =
        [e \in 1..Len(@) |->
            IF "tripUpdate" \in DOMAIN @[e]
            THEN [@[e] EXCEPT !.tripUpdate.trip = @ @@ [directionId |-> 0]]
            ELSE @[e]]]

\* the trips of the feed that report no directionId
tripsWithoutDirection(feed) ==
    { feed.entity[e].tripUpdate.trip.tripId :
        e \in { x \in 1..Len(feed.entity) :
                   /\ "tripUpdate" \in DOMAIN feed.entity[x]
                   /\ "directionId" \notin DOMAIN feed.entity[x].tripUpdate.trip } }

\* what getLineArrivals makes of the first answer of the handler
lineArrivalsOfFirst ==
    getLineArrivals(call.stopId, call.routeId, asReceived(result[1].server),
                    call.nows[1]).value

(***************************************************************************)
(* C23.  A trip update whose trip reports no directionId is emitted by     *)
(* the handler with directionId 0, exactly as if the trip had reported     *)
(* direction 0, and getLineArrivals puts it in the northbound list.        *)
(***************************************************************************)
C23_MissingDirectionIsNorthbound ==
    (Len(result) >= 1 /\ decodedFeed) =>
        LET feed == call.upstream.body
            out  == result[1].server.body.arrivals
            line == lineArrivalsOfFirst
        IN /\ \A i \in 1..Len(out) :
                 out[i].tripId \in tripsWithoutDirection(feed) => out[i].directionId = 0
           /\ out = decodeArrivals(withDirectionZero(feed), call.stopId)
           /\ \A i \in 1..Len(out) :
                 (out[i].tripId \in tripsWithoutDirection(feed)
                  /\ out[i].routeId = call.routeId)
                 => /\ \E k \in 1..Len(line.northbound) :
                          line.northbound[k].tripId = out[i].tripId
                    /\ \A k \in 1..Len(line.southbound) :
                          line.southbound[k].tripId # out[i].tripId

\* the B-line trip, which reports no direction, is emitted for the stop and
\* is the northbound train of the B line there
C23_Witness ==
    /\ Len(result) >= 1
    /\ decodedFeed
    /\ call.routeId = "113B"
    /\ "B1" \in tripsWithoutDirection(call.upstream.body)
    /\ Len(lineArrivalsOfFirst.northbound) = 1
    /\ lineArrivalsOfFirst.northbound[1].tripId = "B1"
    /\ lineArrivalsOfFirst.northbound[1].directionId = 0

(***************************************************************************)
(* SpecApp: the refresh machinery of App (src/app.js).  An async function  *)
(* is a task that stands at an await; an action runs it from the answer of *)
(* the awaited request to its next await, and runs the promise reactions   *)
(* that follow its end (Promise.all in loadInitialData, the .then          *)
(* callbacks) in the same step.  The data a request brings back is the     *)
(* number of the call that asked for it, counted per feed.  The awaited    *)
(* platform requests of one line, between which fetchTransitData writes    *)
(* only to its own locals, make one step.                                  *)
(***************************************************************************)
Feeds == {"weather", "drive", "transit", "vehicle"}

\* `[home, garage, work]`
locations == <<"home", "garage", "work">>

\* config.myStations / the initial state.selectedStation
myStations == [l \in LineIds |->
    CASE l = "117N" -> "35254" [] l = "113G" -> "34781" [] l = "113B" -> "34782"]

\* savePreferences() that forgets the station selection
savedPreferencesMutant(th, avoid, sel) ==
    [theme |-> th, avoidHighways |-> avoid, selectedStation |-> myStations]

\* the object `prefs` of savePreferences()
savedPreferences(th, avoid, sel) ==
    [theme |-> th, avoidHighways |-> avoid, selectedStation |-> sel]

\* JSON.stringify(prefs): the text of the object, member by member in the
\* order of its keys; the three members hold a string, a boolean and an
\* object of strings, which the text keeps as they are
JSONstringify(prefs) ==
    << <<"theme", prefs.theme>>,
       <<"avoidHighways", prefs.avoidHighways>>,
       <<"selectedStation", prefs.selectedStation>> >>

\* JSON.parse(saved): the object of the members of the text, a later
\* member of the same key winning
JSONparse(saved) ==
    [k \in {saved[i][1] : i \in 1..Len(saved)} |->
        saved[CHOOSE i \in 1..Len(saved) :
                 saved[i][1] = k /\ \A j \in (i + 1)..Len(saved) : saved[j][1] # k][2]]

\* loadPreferences(): the theme, avoidHighways and selectedStation of the
\* state after it, from the item `saved` and the state before it
loadPreferences(saved, th, avoid, sel) ==
    IF saved = Undefined THEN [theme |-> th, avoidHighways |-> avoid, selectedStation |-> sel]
    ELSE LET prefs == JSONparse(saved) IN
         [theme |-> IF "theme" \in DOMAIN prefs /\ prefs.theme # ""
                    THEN prefs.theme ELSE "dark",
          avoidHighways |-> IF "avoidHighways" \in DOMAIN prefs /\ prefs.avoidHighways
                            THEN prefs.avoidHighways ELSE FALSE,
          selectedStation |-> IF "selectedStation" \in DOMAIN prefs
                              THEN prefs.selectedStation ELSE sel]

\* what localStorage holds under 'commutePreferences' when the page is
\* opened: nothing, or the text of an earlier visit
StoredDocuments ==
    { Undefined,
      JSONstringify(savedPreferences("light", TRUE, [myStations EXCEPT !["117N"] = "35365"])) }

\* the (line, station) pairs the station selector is used with
StationChoices == { <<"117N", "35365">>, <<"113G", "34510">> }

\* API.getWeather with a catch branch that rethrows
getWeatherMutant(response) ==
    LET fetched == APIfetch(response) IN
    IF fetched.threw THEN Throw
    ELSE Return([_isFallback |-> FALSE] @@ fetched.value)

\* getFallbackWeather()
getFallbackWeather ==
    [temp |-> 50, feelsLike |-> 48, description |-> "Unavailable", icon |-> "01d",
     humidity |-> 50, windSpeed |-> 5, _isFallback |-> TRUE]

\* `data.main`, `data.weather[0]` and `data.wind` can be read
weatherReadable(data) ==
    /\ data # JsonNull
    /\ {"main", "weather", "wind"} \subseteq DOMAIN data
    /\ Len(data.weather) > 0

\* API.getWeather: the completion of the async function
getWeather(response) ==
    LET fetched == APIfetch(response) IN
    IF fetched.threw THEN Return(getFallbackWeather)
    ELSE IF ~weatherReadable(fetched.value) THEN Return(getFallbackWeather)
    ELSE LET data == fetched.value
         IN Return([temp        |-> data.main.temp,
                    feelsLike   |-> data.main.feels_like,
                    description |-> data.weather[1].description,
                    icon        |-> data.weather[1].icon,
                    humidity    |-> data.main.humidity,
                    windSpeed   |-> data.wind.speed,
                    _isFallback |-> FALSE])

\* API.getVehiclePositions: the completion of the async function
getVehiclePositions(response, now) ==
    LET fetched == APIfetch(response) IN
    IF fetched.threw \/ fetched.value = JsonNull
    THEN Return([vehicles |-> <<>>, timestamp |-> now * 1000, feedAgeSeconds |-> 0,
                 _isFallback |-> TRUE])
    ELSE LET data == fetched.value
         IN Return([vehicles       |-> IF "vehicles" \in DOMAIN data THEN data.vehicles ELSE <<>>,
                    timestamp      |-> data.timestamp,
                    feedAgeSeconds |-> data.feedAgeSeconds,
                    _isFallback    |-> FALSE])

\* the answers an upstream request of a feed gets: the feed's data, a
\* transport error, an error status, a body the client cannot use
WeatherAnswers ==
    { HttpResponse(200, [main |-> [temp |-> 61, feels_like |-> 59, humidity |-> 40],
                         weather |-> <<[description |-> "clear sky", icon |-> "01d"]>>,
                         wind |-> [speed |-> 7]]),
      NetworkError,
      HttpResponse(500, [error |-> "Weather API error"]),
      HttpResponse(200, [cod |-> 401]) }

DriveAnswers ==
    { HttpResponse(200, [routes |-> <<routeEntry(Str(<<"1", "2", "3", "4", "s">>), Num(2414),
                                                 Undefined)>>]),
      NetworkError,
      HttpResponse(500, [error |-> "Routes API error"]),
      HttpResponse(200, [routes |-> <<>>]) }

VehicleAnswers ==
    { HttpResponse(200, [vehicles |-> <<[routeId |-> "117N"]>>, timestamp |-> 1000000,
                         feedAgeSeconds |-> 12]),
      NetworkError,
      HttpResponse(503, [error |-> "RTD API error"]),
      HttpResponse(200, JsonNull) }

\* the answers all platform requests of one line get
LineAnswers(lineId) ==
    { DefaultResponse(stations[lineId][1].id, lineId),
      NetworkError,
      HttpResponse(503, [error |-> "RTD API error"]),
      HttpResponse(200, feedBody(<<JsonNull>>)) }

\* the client falls back on this answer
failedAnswer(response) ==
    \/ response.type = "error"
    \/ response.status # 200
    \/ response.body = JsonNull
    \/ DOMAIN response.body \cap {"main", "routes", "vehicles", "arrivals"} = {}
    \/ "routes" \in DOMAIN response.body /\ response.body.routes = <<>>
    \/ "arrivals" \in DOMAIN response.body /\ response.body.arrivals = <<JsonNull>>

newTask(feed, req, owner, pc) ==
    [feed |-> feed, req |-> req, owner |-> owner, pc |-> pc,
     loc |-> 0, line |-> 0, avoid |-> FALSE]

\* the first of the locations from index `from` on that has no coordinates, or 0
nextWithoutCoords(cs, from) ==
    IF \E i \in from..Len(locations) : ~cs[locations[i]]
    THEN CHOOSE i \in from..Len(locations) :
            /\ ~cs[locations[i]]
            /\ \A k \in from..(i - 1) : cs[locations[k]]
    ELSE 0

\* fetchWeather() up to its first await
startFetchWeather(req, owner, cs) ==
    IF cs["home"] THEN newTask("weather", req, owner, "getWeather")
    ELSE [newTask("weather", req, owner, "geocodeAddress") EXCEPT !.loc = 1]

\* fetchDriveTimes() from location `from` of its loop up to the next await
continueFetchDriveTimes(req, owner, cs, from, avoid) ==
    LET i == nextWithoutCoords(cs, from)
    IN IF i = 0 THEN [newTask("drive", req, owner, "morning") EXCEPT !.avoid = avoid]
       ELSE [newTask("drive", req, owner, "geocodeAddress") EXCEPT !.loc = i]

\* fetchTransitData() up to the awaits of its first line
startFetchTransitData(req, owner) ==
    [newTask("transit", req, owner, "fetchLine") EXCEPT !.line = 1]

\* fetchVehiclePositions() up to its await
startFetchVehiclePositions(req, owner) ==
    newTask("vehicle", req, owner, "getVehiclePositions")

\* the loadInitialData call a task belongs to
loadOf(t) == CHOOSE L \in loads : L.id = t.owner[2]

\* task t ends the Promise.all of its loadInitialData call
endsLoad(t) == t.owner[1] = "load" /\ loadOf(t).pending = {t.feed} /\ ~loadOf(t).rejected

\* the refresh cycle a task works for: what started it, its feed, its number
cycleOf(t) ==
    IF t.owner[1] = "load" THEN <<loadOf(t).caller, "all", t.owner[2]>>
    ELSE <<t.owner[1], t.feed, t.req>>

\* `this.render()` called twice
renderPassMutant(log, cycle) == [log EXCEPT ![cycle] = @ + 2]

\* `this.render()` called for a cycle
renderPass(log, cycle) == [log EXCEPT ![cycle] = @ + 1]

\* render(): the loading screen or the dashboard
render(ld) == IF ld.initial THEN "loading" ELSE "dashboard"

\* the end of task t is followed by a call of render
rendersAtEnd(t) ==
    endsLoad(t) \/ t.owner[1] \in {"timer", "changeStation", "toggleAvoidHighways"}

\* the reactions with a changeStation that leaves loading.transit as it is
loadingAfterMutant(t) ==
    CASE endsLoad(t) ->
            [initial |-> IF loadOf(t).caller = "init" THEN FALSE ELSE loading.initial,
             weather |-> FALSE, drive |-> FALSE, transit |-> FALSE]
      [] t.owner[1] = "toggleAvoidHighways" -> [loading EXCEPT !.drive = FALSE]
      [] OTHER -> loading

\* state.loading after the reactions to the end of task t
loadingAfter(t) ==
    CASE endsLoad(t) ->
            [initial |-> IF loadOf(t).caller = "init" THEN FALSE ELSE loading.initial,
             weather |-> FALSE, drive |-> FALSE, transit |-> FALSE]
      [] t.owner[1] = "toggleAvoidHighways" -> [loading EXCEPT !.drive = FALSE]
      [] t.owner[1] = "changeStation" -> [loading EXCEPT !.transit = FALSE]
      [] OTHER -> loading

\* the intervals installed without waiting for loadInitialData
timersAfterMutant(t) == TRUE

\* the intervals are installed: setupAutoRefresh() runs in init() after
\* `await this.loadInitialData()` and `this.state.loading.initial = false`
timersAfter(t) == timers \/ (endsLoad(t) /\ loadOf(t).caller = "init")

loadsAfter(t, threw) ==
    IF t.owner[1] # "load" THEN loads
    ELSE IF loadOf(t).pending = {t.feed} THEN loads \ {loadOf(t)}
    ELSE (loads \ {loadOf(t)}) \cup
         {[loadOf(t) EXCEPT !.pending = @ \ {t.feed}, !.rejected = @ \/ threw]}

\* the end of task t: its promise resolves and the reactions run
Finish(t) ==
    /\ tasks' = tasks \ {t}
    /\ loading' = loadingAfter(t)
    /\ loads' = loadsAfter(t, FALSE)
    /\ timers' = timersAfter(t)
    /\ renderLog' = IF rendersAtEnd(t) THEN renderPass(renderLog, cycleOf(t)) ELSE renderLog
    /\ page' = IF rendersAtEnd(t) THEN render(loading') ELSE page

\* task t throws: its promise rejects, and no reaction to its end runs
Reject(t) ==
    /\ tasks' = tasks \ {t}
    /\ loads' = loadsAfter(t, TRUE)
    /\ UNCHANGED <<loading, timers, renderLog, page>>

\* the async function of task t ends with completion c
Settle(t, c) == IF c.threw THEN Reject(t) ELSE Finish(t)

\* requests answered with a failure so far, after this answer
failsAfter(failed) == IF failed THEN geoFails + 1 ELSE geoFails

InitApp ==
    /\ loading = [initial |-> TRUE, weather |-> FALSE, drive |-> FALSE, transit |-> FALSE]
    /\ theme = "dark"
    /\ avoidHighways = FALSE
    /\ selectedStation = myStations
    /\ localStorage \in StoredDocuments
    /\ weather = Undefined
    /\ driveTime = [morning |-> Undefined, evening |-> Undefined]
    /\ vehiclePositions = Undefined
    /\ transitData = [l \in LineIds |-> Undefined]
    /\ coords = [a \in {"home", "garage", "work"} |-> FALSE]
    /\ tasks = {}
    /\ loads = {}
    /\ timers = FALSE
    /\ nextReq = [f \in Feeds |-> 0]
    /\ geoFails = 0
    /\ ops = 0
    /\ page = "none"
    /\ renderLog = <<>>
    /\ call = <<>>
    /\ result = NoResult
    /\ heap = <<>>
    /\ ftd = idleFrame
    /\ runs = 0
    /\ varied = 0
    /\ clock = 1000
    /\ got = <<>>
    /\ served = [l \in LineIds |-> <<>>]

\* loadInitialData() up to its await of Promise.all
LoadInitialData(caller) ==
    LET owner == <<"load", nextReq["weather"] + 1>> IN
    /\ loading' = [loading EXCEPT !.weather = TRUE, !.drive = TRUE, !.transit = TRUE]
    /\ nextReq' = [f \in Feeds |-> nextReq[f] + 1]
    /\ tasks' = tasks \cup
         { startFetchWeather(nextReq["weather"] + 1, owner, coords),
           continueFetchDriveTimes(nextReq["drive"] + 1, owner, coords, 1, avoidHighways'),
           startFetchTransitData(nextReq["transit"] + 1, owner),
           startFetchVehiclePositions(nextReq["vehicle"] + 1, owner) }
    /\ loads' = loads \cup {[id |-> owner[2], caller |-> caller, pending |-> Feeds,
                             rejected |-> FALSE]}
    /\ renderLog' = (<<caller, "all", owner[2]>> :> 0) @@ renderLog

\* init() up to `await this.loadInitialData()`
AppInit ==
    /\ loading.initial /\ loads = {} /\ nextReq["weather"] = 0
    /\ LET loaded == loadPreferences(localStorage, theme, avoidHighways, selectedStation)
       IN /\ theme' = loaded.theme
          /\ avoidHighways' = loaded.avoidHighways
          /\ selectedStation' = loaded.selectedStation
    /\ LoadInitialData("init")
    /\ UNCHANGED <<localStorage, weather, driveTime, vehiclePositions, transitData,
                   coords, timers, ops, geoFails, page, normVars, transitOnlyVars>>

\* the dashboard is on the page, with its controls
Shown == ~loading.initial

\* n more calls fit in
Room(n) == Cardinality(tasks) + n <= MaxInFlight

\* handleRefresh() up to `await this.loadInitialData()`
HandleRefresh ==
    /\ Shown /\ ops < MaxOps /\ Room(4)
    /\ ops' = ops + 1
    /\ UNCHANGED avoidHighways
    /\ LoadInitialData("refresh")
    /\ UNCHANGED <<theme, selectedStation, localStorage, weather, driveTime,
                   vehiclePositions, transitData, coords, timers, geoFails, page,
                   normVars, transitOnlyVars>>

\* toggleTheme()
ToggleTheme ==
    /\ Shown /\ ops < MaxOps
    /\ ops' = ops + 1
    /\ theme' = IF theme = "dark" THEN "light" ELSE "dark"
    /\ localStorage' = JSONstringify(savedPreferences(theme', avoidHighways, selectedStation))
    /\ UNCHANGED <<loading, avoidHighways, selectedStation, weather, driveTime,
                   vehiclePositions, transitData, coords, tasks, loads, timers, nextReq,
                   geoFails, page, renderLog, normVars, transitOnlyVars>>

\* changeStation(lineId, stationId) up to the pending getLineArrivals
ChangeStation(lineId, stationId) ==
    /\ Shown /\ ops < MaxOps /\ Room(1)
    /\ ops' = ops + 1
    /\ selectedStation' = [selectedStation EXCEPT ![lineId] = stationId]
    /\ localStorage' = JSONstringify(savedPreferences(theme, avoidHighways, selectedStation'))
    /\ loading' = [loading EXCEPT !.transit = TRUE]
    /\ page' = render(loading')
    /\ renderLog' = renderPass((<<"changeStation", "transit", nextReq["transit"] + 1>> :> 0)
                               @@ renderLog,
                               <<"changeStation", "transit", nextReq["transit"] + 1>>)
    /\ nextReq' = [nextReq EXCEPT !["transit"] = @ + 1]
    /\ tasks' = tasks \cup
         {[newTask("transit", nextReq["transit"] + 1, <<"changeStation", lineId>>,
                   "getLineArrivals") EXCEPT !.line = lineId, !.loc = stationId]}
    /\ UNCHANGED <<theme, avoidHighways, weather, driveTime, vehiclePositions, transitData,
                   coords, loads, timers, geoFails, normVars, transitOnlyVars>>

\* toggleAvoidHighways() up to the first await of fetchDriveTimes
ToggleAvoidHighways ==
    /\ Shown /\ ops < MaxOps /\ Room(1)
    /\ ops' = ops + 1
    /\ avoidHighways' = ~avoidHighways
    /\ localStorage' = JSONstringify(savedPreferences(theme, avoidHighways', selectedStation))
    /\ loading' = [loading EXCEPT !.drive = TRUE]
    /\ page' = render(loading')
    /\ renderLog' = renderPass((<<"toggleAvoidHighways", "drive", nextReq["drive"] + 1>> :> 0)
                               @@ renderLog,
                               <<"toggleAvoidHighways", "drive", nextReq["drive"] + 1>>)
    /\ nextReq' = [nextReq EXCEPT !["drive"] = @ + 1]
    /\ tasks' = tasks \cup
         {continueFetchDriveTimes(nextReq["drive"] + 1, <<"toggleAvoidHighways">>,
                                  coords, 1, avoidHighways')}
    /\ UNCHANGED <<theme, selectedStation, weather, driveTime, vehiclePositions,
                   transitData, coords, loads, timers, geoFails, normVars, transitOnlyVars>>

\* a guard that also holds a tick back while a fetch of the feed is in flight
tickGuardedBusy(feed, ld, ts) ==
    feed # "vehicle" /\ (ld[feed] \/ \E t \in ts : t.feed = feed)

\* a guard that holds no tick back
tickGuardedNever(feed, ld, ts) == FALSE

\* the callback of an interval does nothing: `if (!this.state.loading.<feed>)`
\* fails; the interval of the vehicle positions has no such test
tickGuarded(feed, ld, ts) == feed # "vehicle" /\ ld[feed]

\* a tick of the interval of one feed (setupAutoRefresh)
TimerTick(feed) ==
    /\ timers /\ ops < MaxOps /\ Room(1)
    /\ ops' = ops + 1
    /\ IF tickGuarded(feed, loading, tasks)
       THEN UNCHANGED <<tasks, nextReq, renderLog>>
       ELSE /\ nextReq' = [nextReq EXCEPT ![feed] = @ + 1]
            /\ renderLog' = (<<"timer", feed, nextReq[feed] + 1>> :> 0) @@ renderLog
            /\ tasks' = tasks \cup
                 {CASE feed = "weather" ->
                          startFetchWeather(nextReq[feed] + 1, <<"timer">>, coords)
                    [] feed = "drive" ->
                          continueFetchDriveTimes(nextReq[feed] + 1, <<"timer">>, coords, 1,
                                                  avoidHighways)
                    [] feed = "transit" ->
                          startFetchTransitData(nextReq[feed] + 1, <<"timer">>)
                    [] feed = "vehicle" ->
                          startFetchVehiclePositions(nextReq[feed] + 1, <<"timer">>)}
    /\ UNCHANGED <<loading, theme, avoidHighways, selectedStation, localStorage, weather,
                   driveTime, vehiclePositions, transitData, coords, loads, timers,
                   geoFails, page, normVars, transitOnlyVars>>

\* geocodeAddress resolves, with coordinates (found) or with null
GeocodeDone(t, found) ==
    /\ t \in tasks /\ t.pc = "geocodeAddress"
    /\ geoFails' = failsAfter(~found)
    /\ coords' = IF found THEN [coords EXCEPT ![locations[t.loc]] = TRUE] ELSE coords
    /\ tasks' = (tasks \ {t}) \cup
         { IF t.feed = "weather" THEN newTask("weather", t.req, t.owner, "getWeather")
           ELSE continueFetchDriveTimes(t.req, t.owner, coords', t.loc + 1, avoidHighways) }
    /\ UNCHANGED <<loading, theme, avoidHighways, selectedStation, localStorage, weather,
                   driveTime, vehiclePositions, transitData, loads, timers, nextReq, ops,
                   page, renderLog, normVars, transitOnlyVars>>

\* API.getWeather settles: `this.state.weather = ...`, end of fetchWeather
WeatherDone(t, response) ==
    LET c == getWeather(response) IN
    /\ t \in tasks /\ t.pc = "getWeather"
    /\ geoFails' = failsAfter(failedAnswer(response))
    /\ weather' = IF c.threw THEN weather
                  ELSE [req |-> t.req, _isFallback |-> c.value._isFallback]
    /\ Settle(t, c)
    /\ UNCHANGED <<theme, avoidHighways, selectedStation, localStorage, driveTime,
                   vehiclePositions, transitData, coords, nextReq, ops,
                   normVars, transitOnlyVars>>

\* the morning API.getDriveTimes settles; the evening one is called
DriveMorningDone(t, response) ==
    LET c == getDriveTimes(response) IN
    /\ t \in tasks /\ t.pc = "morning"
    /\ geoFails' = failsAfter(failedAnswer(response))
    /\ IF c.threw
       THEN /\ Reject(t)
            /\ UNCHANGED driveTime
       ELSE /\ driveTime' = [driveTime EXCEPT !.morning =
                                [req |-> t.req, avoidHighways |-> t.avoid,
                                 _isFallback |-> c.value._isFallback]]
            /\ tasks' = (tasks \ {t}) \cup {[t EXCEPT !.pc = "evening", !.avoid = avoidHighways]}
            /\ UNCHANGED <<loading, loads, timers, page, renderLog>>
    /\ UNCHANGED <<theme, avoidHighways, selectedStation, localStorage, weather,
                   vehiclePositions, transitData, coords, nextReq, ops,
                   normVars, transitOnlyVars>>

\* the evening API.getDriveTimes settles, end of fetchDriveTimes
DriveEveningDone(t, response) ==
    LET c == getDriveTimes(response) IN
    /\ t \in tasks /\ t.pc = "evening"
    /\ geoFails' = failsAfter(failedAnswer(response))
    /\ driveTime' = IF c.threw THEN driveTime
                    ELSE [driveTime EXCEPT !.evening =
                             [req |-> t.req, avoidHighways |-> t.avoid,
                              _isFallback |-> c.value._isFallback]]
    /\ Settle(t, c)
    /\ UNCHANGED <<theme, avoidHighways, selectedStation, localStorage, weather,
                   vehiclePositions, transitData, coords, nextReq, ops,
                   normVars, transitOnlyVars>>

\* the platform requests of a line are answered:
\* `this.state.transitData[lineId] = lineData`, then the next line or the end
TransitLineDone(t, response) ==
    LET lineId == lines[t.line]
        c      == getLineArrivals(stations[lineId][1].id, lineId, response, clock)
    IN
    /\ t \in tasks /\ t.pc = "fetchLine"
    /\ geoFails' = failsAfter(failedAnswer(response))
    /\ IF c.threw
       THEN /\ Reject(t)
            /\ UNCHANGED transitData
       ELSE /\ transitData' = [transitData EXCEPT ![lineId] =
                                  [req |-> t.req, shape |-> "stations",
                                   live |-> ~c.value._isFallback]]
            /\ IF t.line < Len(lines)
               THEN /\ tasks' = (tasks \ {t}) \cup {[t EXCEPT !.line = @ + 1]}
                    /\ UNCHANGED <<loading, loads, timers, page, renderLog>>
               ELSE Finish(t)
    /\ UNCHANGED <<theme, avoidHighways, selectedStation, localStorage, weather, driveTime,
                   vehiclePositions, coords, nextReq, ops, normVars, transitOnlyVars>>

\* API.getVehiclePositions settles: `this.state.vehiclePositions = data`
VehicleDone(t, response) ==
    LET c == getVehiclePositions(response, clock) IN
    /\ t \in tasks /\ t.pc = "getVehiclePositions"
    /\ geoFails' = failsAfter(failedAnswer(response))
    /\ vehiclePositions' = IF c.threw THEN vehiclePositions
                           ELSE [req |-> t.req, _isFallback |-> c.value._isFallback]
    /\ Settle(t, c)
    /\ UNCHANGED <<theme, avoidHighways, selectedStation, localStorage, weather, driveTime,
                   transitData, coords, nextReq, ops, normVars, transitOnlyVars>>

\* the getLineArrivals of changeStation settles:
\* `this.state.transitData[lineId] = data; this.state.loading.transit = false`
ChangeStationDone(t, response) ==
    LET c == getLineArrivals(t.loc, t.line, response, clock) IN
    /\ t \in tasks /\ t.pc = "getLineArrivals"
    /\ geoFails' = failsAfter(failedAnswer(response))
    /\ transitData' = IF c.threw THEN transitData
                      ELSE [transitData EXCEPT ![t.line] =
                               [req |-> t.req, shape |-> "arrivals",
                                live |-> ~c.value._isFallback]]
    /\ Settle(t, c)
    /\ UNCHANGED <<theme, avoidHighways, selectedStation, localStorage, weather, driveTime,
                   vehiclePositions, coords, nextReq, ops, normVars, transitOnlyVars>>

\* the answer is the feed's data, or one more failure is within the bound
Within(failed) == ~failed \/ geoFails < MaxGeoFails

NextApp ==
    \/ AppInit
    \/ HandleRefresh
    \/ ToggleTheme
    \/ \E c \in StationChoices : ChangeStation(c[1], c[2])
    \/ ToggleAvoidHighways
    \/ \E feed \in Feeds : TimerTick(feed)
    \/ \E t \in tasks, found \in BOOLEAN : Within(~found) /\ GeocodeDone(t, found)
    \/ \E t \in tasks, r \in WeatherAnswers : Within(failedAnswer(r)) /\ WeatherDone(t, r)
    \/ \E t \in tasks, r \in DriveAnswers : Within(failedAnswer(r)) /\ DriveMorningDone(t, r)
    \/ \E t \in tasks, r \in DriveAnswers : Within(failedAnswer(r)) /\ DriveEveningDone(t, r)
    \/ \E t \in tasks, r \in LineAnswers(lines[1]) :
          Within(failedAnswer(r)) /\ TransitLineDone(t, r)
    \/ \E t \in tasks, r \in VehicleAnswers : Within(failedAnswer(r)) /\ VehicleDone(t, r)
    \/ \E t \in tasks, r \in LineAnswers(lines[1]) :
          Within(failedAnswer(r)) /\ ChangeStationDone(t, r)

SpecApp == InitApp /\ [][NextApp]_vars

(***************************************************************************)
(* SpecLoad: init() alone, from the opening of the page to the first       *)
(* render, with every request answered in any of the ways its feed can     *)
(* answer, and every request answered eventually.                          *)
(***************************************************************************)
NextLoad ==
    \/ AppInit
    \/ \E t \in tasks, found \in BOOLEAN : GeocodeDone(t, found)
    \/ \E t \in tasks, r \in WeatherAnswers : WeatherDone(t, r)
    \/ \E t \in tasks, r \in DriveAnswers : DriveMorningDone(t, r)
    \/ \E t \in tasks, r \in DriveAnswers : DriveEveningDone(t, r)
    \/ \E t \in tasks, r \in LineAnswers(lines[1]) : TransitLineDone(t, r)
    \/ \E t \in tasks, r \in VehicleAnswers : VehicleDone(t, r)

\* every request in flight is answered, and init() runs once the page is open
FairLoad ==
    /\ WF_vars(AppInit)
    /\ WF_vars(\E t \in tasks, found \in BOOLEAN : GeocodeDone(t, found))
    /\ WF_vars(\E t \in tasks, r \in WeatherAnswers : WeatherDone(t, r))
    /\ WF_vars(\E t \in tasks, r \in DriveAnswers : DriveMorningDone(t, r))
    /\ WF_vars(\E t \in tasks, r \in DriveAnswers : DriveEveningDone(t, r))
    /\ WF_vars(\E t \in tasks, r \in LineAnswers(lines[1]) : TransitLineDone(t, r))
    /\ WF_vars(\E t \in tasks, r \in VehicleAnswers : VehicleDone(t, r))

SpecLoad == InitApp /\ [][NextLoad]_vars /\ FairLoad

(***************************************************************************)
(* C12.  The dashboard always renders: init() eventually sets              *)
(* loading.initial to false and renders the dashboard, and the dashboard   *)
(* stays, whichever of the geocoding, weather, drive-time, transit and     *)
(* vehicle-position requests fail.                                         *)
(***************************************************************************)
C12_AlwaysRenders == <>[](~loading.initial /\ page = "dashboard")

\* the dashboard is rendered after every request of the load has failed
C12_Witness ==
    /\ page = "dashboard"
    /\ \A a \in DOMAIN coords : ~coords[a]
    /\ weather._isFallback
    /\ driveTime.morning._isFallback /\ driveTime.evening._isFallback
    /\ vehiclePositions._isFallback
    /\ \A l \in LineIds : ~transitData[l].live

\* the calls in flight, among ts, that work for refresh cycle k
cycleTasks(ts, k) ==
    { t \in ts : IF k[2] = "all" THEN t.owner[1] = "load" /\ t.owner[2] = k[3]
                 ELSE t.owner[1] = k[1] /\ t.feed = k[2] /\ t.req = k[3] }

\* the cycles the timers, the refresh button and init() started
RefreshCycles == { k \in DOMAIN renderLog : k[1] \in {"init", "refresh", "timer"} }

(***************************************************************************)
(* C13.  One render pass per refresh cycle: the initial load, a manual     *)
(* refresh and a timer-driven refresh of a feed never call render more     *)
(* than once, have called it exactly once when the cycle is over, and call *)
(* it only when no request of the cycle is left to write its state field.  *)
(***************************************************************************)
C13_OncePerCycle ==
    \A k \in RefreshCycles :
        /\ renderLog[k] <= 1
        /\ cycleTasks(tasks, k) = {} => renderLog[k] = 1

C13_RenderAfterWrites ==
    \A k \in RefreshCycles :
        renderLog'[k] > renderLog[k] => cycleTasks(tasks', k) = {}

C13_OneRenderPerCycle == [](C13_OncePerCycle) /\ [][C13_RenderAfterWrites]_vars

\* the initial load, a manual refresh and a timer refresh of the drive times
\* (two state fields) are over
C13_Witness ==
    /\ tasks = {}
    /\ \E k \in RefreshCycles : k[1] = "init" /\ renderLog[k] = 1
    /\ \E k \in RefreshCycles : k[1] = "refresh" /\ renderLog[k] = 1
    /\ \E k \in RefreshCycles : k[1] = "timer" /\ k[2] = "drive" /\ renderLog[k] = 1

\* the preferences of the state
statePreferences ==
    [theme |-> theme, avoidHighways |-> avoidHighways, selectedStation |-> selectedStation]

\* a step of the loaded page changes a preference or the stored document
C21_PreferenceStep ==
    /\ ~loading.initial
    /\ \/ theme' # theme
       \/ avoidHighways' # avoidHighways
       \/ selectedStation' # selectedStation
       \/ localStorage' # localStorage

\* the stored document is the text of the preferences of the new state,
\* and loadPreferences restores them from it whatever the state it runs in
C21_SavedAfterStep ==
    C21_PreferenceStep =>
        /\ localStorage' # Undefined
        /\ JSONparse(localStorage') = statePreferences'
        /\ \A th \in {"dark", "light"}, avoid \in BOOLEAN :
              loadPreferences(localStorage', th, avoid, myStations) = statePreferences'

(***************************************************************************)
(* C21.  Preferences are persisted wholesale: after toggleTheme,           *)
(* toggleAvoidHighways and changeStation the document under                *)
(* 'commutePreferences' holds exactly the theme, avoidHighways and         *)
(* selectedStation of the state, and loadPreferences on that document      *)
(* restores the same three values.                                         *)
(***************************************************************************)
C21_PreferencesPersisted == [][C21_SavedAfterStep]_vars

\* the G-line station was changed and the dark theme is in force: the
\* stored document holds both
C21_Witness ==
    /\ ops = 2
    /\ selectedStation["113G"] = "34510"
    /\ theme = "dark"
    /\ localStorage # Undefined
    /\ JSONparse(localStorage) = statePreferences

\* the fetches in flight, among ts, that a tick of the timer of the feed started
timerTasks(ts, feed) == { t \in ts : t.owner = <<"timer">> /\ t.feed = feed }

\* a step that starts a timer-driven fetch leaves every loading flag as it is
C22_TimerLeavesFlag ==
    \A f \in Feeds :
        (nextReq'[f] = nextReq[f] + 1
         /\ \E t \in timerTasks(tasks', f) : t.req = nextReq'[f]) => loading' = loading

\* with a timer-driven fetch of a feed in flight and the feed's flag false,
\* a tick of the feed's timer starts one more
C22_SecondFetchStarts ==
    \A f \in Feeds :
        (/\ timers /\ ops < MaxOps /\ Room(1)
         /\ f \in DOMAIN loading => ~loading[f]
         /\ timerTasks(tasks, f) # {})
        => ENABLED (/\ TimerTick(f)
                    /\ Cardinality(timerTasks(tasks', f)) = Cardinality(timerTasks(tasks, f)) + 1)

(***************************************************************************)
(* C22.  Overlapping duplicate requests: a timer-driven refresh does not   *)
(* set the loading flag of its feed, so a tick that comes while the        *)
(* earlier timer-driven fetch of the feed is in flight starts a second     *)
(* fetch of the feed, and two fetches of one feed are in flight at once.   *)
(***************************************************************************)
C22_OverlappingFetches == [](C22_SecondFetchStarts) /\ [][C22_TimerLeavesFlag]_vars

\* two timer-driven transit fetches are in flight, the earlier of which has
\* written its first line to the state
C22_Witness ==
    /\ Cardinality(timerTasks(tasks, "transit")) = 2
    /\ ~loading.transit
    /\ \E t \in timerTasks(tasks, "transit") :
          t.line = 2 /\ transitData[lines[1]].req = t.req

(***************************************************************************)
(* C24.  Shape of the per-line result map: every installed                 *)
(* state.transitData[lineId] is the object that maps the station ids of    *)
(* the line to their boards, which renderContent looks the configured      *)
(* station up in.                                                          *)
(***************************************************************************)
C24_LineDataShape ==
    \A l \in LineIds : transitData[l] # Undefined => transitData[l].shape = "stations"

(***************************************************************************)
(* C25.  A loading flag is true while an operation that set it is in       *)
(* flight: loading.transit while a loadInitialData or a changeStation      *)
(* fetch is outstanding, loading.drive while a loadInitialData or a        *)
(* toggleAvoidHighways fetch is outstanding.                               *)
(***************************************************************************)
C25_FlagWhileInFlight ==
    /\ (loads # {} \/ \E t \in tasks : t.owner[1] = "changeStation") => loading.transit
    /\ (loads # {} \/ \E t \in tasks : t.owner[1] = "toggleAvoidHighways") => loading.drive

(***************************************************************************)
(* C26.  With no drive-time request outstanding, the morning and the       *)
(* evening drive time of the state were both computed with the current     *)
(* value of state.avoidHighways.                                           *)
(***************************************************************************)
C26_DriveTimesMatchFlag ==
    (/\ \A t \in tasks : t.feed # "drive"
     /\ driveTime.morning # Undefined
     /\ driveTime.evening # Undefined)
    => /\ driveTime.morning.avoidHighways = avoidHighways
       /\ driveTime.evening.avoidHighways = avoidHighways

(***************************************************************************)
(* C29.  A tick of the weather, drive-time or transit interval that fires  *)
(* while the loading flag of its feed is true starts no fetch, causes no   *)
(* render and leaves all state as it is; the interval of the vehicle       *)
(* positions has no guard and starts a fetch on every tick.                *)
(***************************************************************************)
\* the state of the application: this.state, the stored preferences, the
\* calls in flight, the count of requests and of renders, the page
C29_AppState ==
    <<loading, theme, avoidHighways, selectedStation, localStorage, weather, driveTime,
      vehiclePositions, transitData, coords, tasks, loads, timers, nextReq, page, renderLog>>

C29_GuardedTickIdle ==
    \A feed \in Feeds \ {"vehicle"} :
        (TimerTick(feed) /\ loading[feed]) => UNCHANGED C29_AppState

C29_VehicleTickFetches ==
    TimerTick("vehicle") =>
        /\ nextReq'["vehicle"] = nextReq["vehicle"] + 1
        /\ tasks' \ tasks = {startFetchVehiclePositions(nextReq'["vehicle"], <<"timer">>)}

C29_GuardedTicks == [][C29_GuardedTickIdle /\ C29_VehicleTickFetches]_vars

\* the page was opened without stored preferences; its two operations were
\* changeStation, still waiting for its answer, and one that neither asked
\* for anything nor changed the theme: a tick of the transit interval that
\* found loading.transit true
C29_Witness ==
    /\ ops = 2
    /\ selectedStation = [myStations EXCEPT !["113G"] = "34510"]
    /\ theme = "dark"
    /\ loading.transit
    /\ \E t \in tasks : t.owner = <<"changeStation", "113G">>
    /\ nextReq = [weather |-> 1, drive |-> 1, transit |-> 2, vehicle |-> 1]

(***************************************************************************)
(* C30.  The auto-refresh intervals are installed only after the initial   *)
(* load has completed: no timer-driven fetch starts before                 *)
(* loadInitialData has finished and loading.initial is false; once         *)
(* loading.initial is false it is never true again, and the loading        *)
(* screen is not shown after the first render of the dashboard.            *)
(***************************************************************************)
\* the loadInitialData call of init() is still awaited
initialLoadPending == \E L \in loads : L.caller = "init"

C30_InstalledAfterLoad ==
    /\ timers => ~loading.initial /\ ~initialLoadPending /\ nextReq["weather"] > 0
    /\ \A t \in tasks : t.owner[1] = "timer" => timers

C30_StartsAfterLoad ==
    \A feed \in Feeds :
        (TimerTick(feed) /\ tasks' # tasks) => ~loading.initial /\ ~initialLoadPending

C30_NeverLoadingAgain ==
    /\ ~loading.initial => ~loading'.initial
    /\ page = "dashboard" => page' = "dashboard"

C30_TimersAfterInitialLoad ==
    /\ [](C30_InstalledAfterLoad)
    /\ [][C30_StartsAfterLoad /\ C30_NeverLoadingAgain]_vars

\* a fetch started by an interval is in flight while a manual refresh has
\* set the loading flags, and the page is the dashboard
C30_Witness ==
    /\ \E t \in tasks : t.owner[1] = "timer"
    /\ \E L \in loads : L.caller = "refresh"
    /\ loading.weather /\ ~loading.initial
    /\ page = "dashboard"

(***************************************************************************)
(* SpecLive: the operations of SpecApp with every request answered         *)
(* eventually: each pending await of geocodeAddress and of the API calls   *)
(* is resumed, and init() runs once the page is open.  The user and the    *)
(* intervals are under no obligation to act.                               *)
(***************************************************************************)
\* the requests of FairLoad and the one of changeStation are answered; an
\* answer within the bound on failures is possible whenever one is awaited
FairApp ==
    /\ FairLoad
    /\ WF_vars(\E t \in tasks, r \in LineAnswers(lines[1]) : ChangeStationDone(t, r))

SpecLive == InitApp /\ [][NextApp]_vars /\ FairApp

(***************************************************************************)
(* C28.  Every loading flag (weather, drive, transit) that is set to true  *)
(* is eventually set back to false, when every request eventually          *)
(* completes, for any interleaving of the initial load, manual refresh,    *)
(* changeStation and toggleAvoidHighways and whichever requests fail; no   *)
(* guarded timer is disabled forever.                                      *)
(***************************************************************************)
\* (a flag that is true is false later) = (the flag is false again and again)
C28_FlagsEventuallyReset ==
    /\ []<>(~loading.weather)
    /\ []<>(~loading.drive)
    /\ []<>(~loading.transit)

\* all is at rest with the three flags false, after a refresh whose answers
\* came while a changeStation was waiting for an answer that was a failure
C28_Witness ==
    /\ tasks = {} /\ loads = {}
    /\ ~loading.weather /\ ~loading.drive /\ ~loading.transit
    /\ ops = 2
    /\ geoFails = 1
    /\ nextReq["weather"] = 2
    /\ transitData["113G"] # Undefined
    /\ transitData["113G"].shape = "arrivals"
    /\ transitData["113G"].req = 3
    /\ ~transitData["113G"].live
    /\ transitData["117N"].req = 2

(***************************************************************************)
(* SpecMerge: the loop body of fetchTransitData for one station of the N   *)
(* line with two platforms (src/app.js): getLineArrivals on the feed of    *)
(* each platform, the pushes into allNorthbound and allSouthbound, the two *)
(* sorts.  The feed of a platform holds any of the trains of a pool, in    *)
(* the order of the pool, which is not the order of time.                  *)
(***************************************************************************)
\* the trains the first and the second platform of a station can report
FirstPlatformPool ==
    << arrivalEntry("117N", 0, "a1", Num(1300), Undefined),
       arrivalEntry("117N", 0, "a2", Num(1060), Undefined),
       arrivalEntry("117N", 0, "a3", Num(1420), Undefined),
       arrivalEntry("117N", 1, "a4", Num(1120), Undefined),
       arrivalEntry("117N", 0, "a5", Undefined, Num(1240)),
       arrivalEntry("117N", 0, "a6", Num(1180), Undefined) >>

SecondPlatformPool ==
    << arrivalEntry("117N", 0, "b1", Num(1090), Undefined),
       arrivalEntry("113G", 0, "b2", Num(1000), Undefined),
       arrivalEntry("117N", 0, "b3", Num(1360), Undefined),
       arrivalEntry("117N", 0, "b4", Num(1150), Undefined),
       arrivalEntry("117N", 0, "b5", Num(1060), Num(1075)),
       arrivalEntry("117N", 0, "b6", Num(1270), Undefined) >>

\* the entries of the pool at the places of `taken`, in the order of the pool
RECURSIVE feedOf(_, _)
feedOf(pool, taken) ==
    IF pool = <<>> THEN <<>>
    ELSE LET rest == feedOf(SubSeq(pool, 1, Len(pool) - 1), taken)
         IN IF Len(pool) \in taken THEN Append(rest, pool[Len(pool)]) ELSE rest

\* the stations of the N line that are merged from two platforms
MergedStations ==
    { stations["117N"][j] : j \in { i \in 1..Len(stations["117N"]) :
          Len(platformIdsOf("117N", stations["117N"][i])) > 1 } }

\* allNorthbound / allSouthbound after the first k platforms of the station
RECURSIVE pushedAfter(_, _, _, _, _)
pushedAfter(k, st, feeds, now, d) ==
    IF k = 0 THEN <<>>
    ELSE pushAllowed(pushedAfter(k - 1, st, feeds, now, d),
                     nLinePlatforms[st.id].directions, d,
                     getLineArrivals(platformIdsOf("117N", st)[k], "117N", feeds[k], now).value[d])

\* `data` of a station of the N line: the merged and sorted lists
mergedStationData(st, feeds, now) ==
    LET n == Len(platformIdsOf("117N", st))
    IN [northbound |-> sortCombined(pushedAfter(n, st, feeds, now, "northbound")),
        southbound |-> sortCombined(pushedAfter(n, st, feeds, now, "southbound")),
        stopName   |-> st.name]

InitMerge ==
    /\ AppIdle
    /\ TransitIdle
    /\ call \in [station : MergedStations,
                 first   : SUBSET (1..Len(FirstPlatformPool)),
                 second  : SUBSET (1..Len(SecondPlatformPool))]
    /\ result = NoResult

\* the platforms of the station are fetched and merged
MergeStation ==
    /\ result = NoResult
    /\ result' = mergedStationData(call.station,
                     << HttpResponse(200, feedBody(feedOf(FirstPlatformPool, call.first))),
                        HttpResponse(200, feedBody(feedOf(SecondPlatformPool, call.second))) >>,
                     clock)
    /\ UNCHANGED <<call, transitVars, appOnlyVars>>

NextMerge == MergeStation

SpecMerge == InitMerge /\ [][NextMerge]_vars

\* the time of a feed entry: its arrivalTime or else its departureTime
entryTime(e) == IF IsNum(e.arrivalTime) THEN ValueOf(e.arrivalTime) ELSE ValueOf(e.departureTime)

\* the trains of the N line of direction d that the two feeds of the call hold
reportedTrains(d) ==
    { e \in { FirstPlatformPool[i] : i \in call.first }
             \cup { SecondPlatformPool[i] : i \in call.second } :
        e.routeId = "117N" /\ e.directionId = d }

\* the trains of ts that at most n trains of ts are earlier than
earliest(ts, n) ==
    { e \in ts : Cardinality({ x \in ts : entryTime(x) < entryTime(e) }) < n }

\* the first three entries of the merged list are three earliest reported
\* trains of direction d, in the order of time
firstThreeAreEarliest(list, d) ==
    LET top   == SubSeq(list, 1, IF Len(list) < 3 THEN Len(list) ELSE 3)
        trips == reportedTrains(d)
    IN /\ Len(top) = (IF Cardinality(trips) < 3 THEN Cardinality(trips) ELSE 3)
       /\ \A i \in 1..Len(top) :
             \E e \in earliest(trips, 3) :
                 e.tripId = top[i].tripId /\ top[i].time = Num(entryTime(e))
       /\ \A i, j \in 1..Len(top) : i # j => top[i].tripId # top[j].tripId
       /\ \A i \in 1..(Len(top) - 1) : ValueOf(top[i].time) <= ValueOf(top[i + 1].time)
       /\ \A e \in trips :
             (\A i \in 1..Len(top) : top[i].tripId # e.tripId)
             => \A i \in 1..Len(top) : ValueOf(top[i].time) <= entryTime(e)

(***************************************************************************)
(* C27.  Capping before merging loses nothing: the first three entries of  *)
(* each merged direction list of a station are the three earliest arrivals *)
(* of that direction and route over all platform feeds of the station,     *)
(* although getLineArrivals cuts each platform list to three first.        *)
(***************************************************************************)
C27_CapBeforeMerge ==
    result # NoResult =>
        /\ firstThreeAreEarliest(result.northbound, 0)
        /\ firstThreeAreEarliest(result.southbound, 1)

\* both platforms report more than three northbound trains, and the merged
\* list holds the three of each that the caps left
C27_Witness ==
    /\ result # NoResult
    /\ Cardinality(call.first) = Len(FirstPlatformPool)
    /\ Cardinality(call.second) = Len(SecondPlatformPool)
    /\ Len(result.northbound) = 6
    /\ result.northbound[1].tripId = "a2"
    /\ result.northbound[2].tripId = "b5"
    /\ result.northbound[3].tripId = "b1"

(***************************************************************************)
(* SpecView: the dashboard of the G line (src/app.js).  fetchTransitData   *)
(* stores, for every station of the line, the result of getLineArrivals   *)
(* on the feed of that station; render then builds the page from the       *)
(* stored boards.  A displayed text is kept by its parts: <<"Now">> is     *)
(* `Now`, <<"min", m>> is `${m} min`, <<"none">> is the dash of an empty   *)
(* cell.                                                                   *)
(***************************************************************************)
\* Math.max(0, x): NaN when x is undefined or NaN
MathMax0(x) == IF IsNum(x) THEN (IF ValueOf(x) < 0 THEN Num(0) ELSE x) ELSE NaN

\* x < n and x <= n for a literal n: false when x is NaN
LessThan(x, n) == IsNum(x) /\ ValueOf(x) < n
AtMost(x, n)   == IsNum(x) /\ ValueOf(x) <= n

\* a status rule that takes `Arriving` below one minute only
statusOfMutant(minutesAway) ==
    IF LessThan(minutesAway, 1) THEN "Arriving"
    ELSE IF AtMost(minutesAway, 5) THEN "Approaching"
    ELSE "Scheduled"

\* let status = 'Scheduled'; if (minutesAway <= 1) ... else if (minutesAway <= 5) ...
statusOf(minutesAway) ==
    IF AtMost(minutesAway, 1) THEN "Arriving"
    ELSE IF AtMost(minutesAway, 5) THEN "Approaching"
    ELSE "Scheduled"

\* ${minutesAway < 1 ? 'Now' : `${minutesAway} min`}
countdownText(minutesAway) ==
    IF LessThan(minutesAway, 1) THEN <<"Now">> ELSE <<"min", minutesAway>>

\* the class of the countdown of a train of renderYourStation
countdownClass(minutesAway) ==
    IF LessThan(minutesAway, 2) THEN "imminent"
    ELSE IF LessThan(minutesAway, 5) THEN "soon"
    ELSE ""

\* one train of renderYourStation: the callback of nextNB.map / nextSB.map
trainItem(train) ==
    LET minutesAway == MathMax0(train.minutesAway) IN
    [time      |-> train.time,
     status    |-> statusOf(minutesAway),
     class     |-> countdownClass(minutesAway),
     countdown |-> countdownText(minutesAway)]

\* renderYourStation(stationData, lineId)
renderYourStation(stationData) ==
    IF stationData = Undefined \/ stationData._isFallback
    THEN [available |-> FALSE, northbound |-> <<>>, southbound |-> <<>>]
    ELSE LET nextNB == Slice(stationData.northbound, 2)
             nextSB == Slice(stationData.southbound, 2)
         IN [available  |-> TRUE,
             northbound |-> [i \in 1..Len(nextNB) |-> trainItem(nextNB[i])],
             southbound |-> [i \in 1..Len(nextSB) |-> trainItem(nextSB[i])]]

\* a cell of the table of renderAllStationsQuickView: the first train of a
\* direction of a station
nextTrainCell(list) ==
    IF list = <<>> THEN <<"none">>
    ELSE countdownText(MathMax0(list[1].minutesAway))

\* renderAllStationsQuickView(lineId, lineData)
renderAllStationsQuickView(lineId, lineData) ==
    [i \in 1..Len(stations[lineId]) |->
        LET data == lineData[stations[lineId][i].id] IN
        [station |-> stations[lineId][i].id,
         nextNB  |-> nextTrainCell(data.northbound),
         nextSB  |-> nextTrainCell(data.southbound)]]

\* renderContent: the station of config.myStations and the table of all
\* stations of the selected line
renderContent(lineId, lineData) ==
    [yourStation |-> renderYourStation(lineData[myStations[lineId]]),
     allStations |-> renderAllStationsQuickView(lineId, lineData)]

\* the feeds of a station of the G line: the lists of SpecNorm, and three
\* northbound trains of which the first has left
ViewLists ==
    NormLists
    \cup { << arrivalEntry("113G", 0, 1, Num(910), Undefined),
              arrivalEntry("113G", 0, 2, Num(1120), Undefined),
              arrivalEntry("113G", 0, 3, Num(1600), Undefined) >> }

ViewResponses ==
    { HttpResponse(200, feedBody(a)) : a \in ViewLists }
    \cup { NetworkError, HttpResponse(503, [error |-> "RTD API error"]) }

\* the object fetchTransitData stores for a line of single-platform
\* stations, every station being answered with the same feed
lineDataOf(lineId, response, now) ==
    [s \in {stations[lineId][i].id : i \in 1..Len(stations[lineId])} |->
        getLineArrivals(s, lineId, response, now).value
        @@ [stationName |-> (CHOOSE st \in {stations[lineId][i] : i \in 1..Len(stations[lineId])} :
                                 st.id = s).name]]

InitView ==
    /\ AppIdle
    /\ TransitIdle
    /\ call \in [lineId : {"113G"}, response : ViewResponses, now : NowValues]
    /\ result = NoResult

\* fetchTransitData installs the boards of the line
StoreLine ==
    /\ transitData[call.lineId] = Undefined
    /\ transitData' = [transitData EXCEPT
                         ![call.lineId] = lineDataOf(call.lineId, call.response, call.now)]
    /\ UNCHANGED <<normVars, transitOnlyVars, appOnlyVars>>

\* render() of the loaded dashboard
RenderDashboard ==
    /\ transitData[call.lineId] # Undefined
    /\ result = NoResult
    /\ result' = renderContent(call.lineId, transitData[call.lineId])
    /\ UNCHANGED <<call, transitVars, appOnlyVars>>

NextView == StoreLine \/ RenderDashboard

SpecView == InitView /\ [][NextView]_vars

\* the dashboard has been rendered from the stored boards
rendered == result # NoResult /\ DOMAIN result = {"yourStation", "allStations"}

\* the board of the user's station, as stored
storedBoard == transitData[call.lineId][myStations[call.lineId]]

\* every countdown text the rendered dashboard shows
shownCountdowns ==
    { result.yourStation.northbound[i].countdown : i \in 1..Len(result.yourStation.northbound) }
    \cup { result.yourStation.southbound[i].countdown : i \in 1..Len(result.yourStation.southbound) }
    \cup { result.allStations[i].nextNB : i \in 1..Len(result.allStations) }
    \cup { result.allStations[i].nextSB : i \in 1..Len(result.allStations) }

(***************************************************************************)
(* C16.  Every countdown the dashboard shows is >= 0: a shown countdown is *)
(* `Now` or a number of minutes that is at least 0, whatever minutesAway   *)
(* the state holds, and `Now` is shown exactly for the stored values that  *)
(* clamp to 0.                                                             *)
(***************************************************************************)
C16_CountdownNonNegative ==
    rendered =>
        \A c \in shownCountdowns :
            \/ c = <<"none">>
            \/ c = <<"Now">>
            \/ c[1] = "min" /\ IsNum(c[2]) /\ ValueOf(c[2]) >= 0

(***************************************************************************)
(* C17.  The status label of a displayed arrival depends on its stored     *)
(* minutesAway only: `Arriving` at 1 or less (every negative value         *)
(* included), `Approaching` above 1 and up to 5, `Scheduled` otherwise,    *)
(* for northbound and southbound trains alike.                             *)
(***************************************************************************)
statusPerSpec(minutesAway) ==
    IF IsNum(minutesAway) /\ ValueOf(minutesAway) <= 1 THEN "Arriving"
    ELSE IF IsNum(minutesAway) /\ ValueOf(minutesAway) > 1 /\ ValueOf(minutesAway) <= 5
         THEN "Approaching"
    ELSE "Scheduled"

C17_StatusThresholds ==
    (rendered /\ result.yourStation.available) =>
        /\ Len(result.yourStation.northbound) = Len(Slice(storedBoard.northbound, 2))
        /\ Len(result.yourStation.southbound) = Len(Slice(storedBoard.southbound, 2))
        /\ \A i \in 1..Len(result.yourStation.northbound) :
              result.yourStation.northbound[i].status
                  = statusPerSpec(storedBoard.northbound[i].minutesAway)
        /\ \A i \in 1..Len(result.yourStation.southbound) :
              result.yourStation.southbound[i].status
                  = statusPerSpec(storedBoard.southbound[i].minutesAway)

\* a train that has left and one a minute away are shown as arriving, and a
\* southbound train two minutes away as approaching
C17_Witness ==
    /\ rendered
    /\ result.yourStation.available
    /\ Len(result.yourStation.northbound) = 1
    /\ Len(result.yourStation.southbound) = 1
    /\ IsNum(storedBoard.northbound[1].minutesAway)
    /\ ValueOf(storedBoard.northbound[1].minutesAway) < 0
    /\ result.yourStation.northbound[1].status = "Arriving"
    /\ storedBoard.southbound[1].minutesAway = Num(2)
    /\ result.yourStation.southbound[1].status = "Approaching"

(***************************************************************************)
(* SpecTrack: getTrainPosition of renderVisualTrack (src/server.js), the   *)
(* place of a vehicle's marker on the track of its line.  A latitude or a  *)
(* longitude is counted in units of 0.0001 degree, so that the station     *)
(* coordinates of the source are whole numbers; a distance is kept to a    *)
(* tenth of that unit, and a position is the fraction <<num, den>>.        *)
(***************************************************************************)
trackStation(id, name, pos) == [id |-> id, name |-> name, pos |-> pos]

trackStationAt(id, name, lat, lng, pos) ==
    [id |-> id, name |-> name, lat |-> lat, lng |-> lng, pos |-> pos]

stationConfigs == [l \in LineIds |->
    CASE l = "117N" -> << trackStationAt("34668", "Union", 397539, -1050000, 3),
                          trackStationAt("35246", "48th", 397809, -1049693, 25),
                          trackStationAt("35254", "112th", 399158, -1049872, 70),
                          trackStationAt("35365", "124th", 399308, -1049900, 97) >>
      [] l = "113G" -> << trackStation("34781", "Union", 5),
                          trackStation("34544", "Pecos", 35),
                          trackStation("34541", "Olde Town", 70),
                          trackStation("34510", "Ward", 95) >>
      [] l = "113B" -> << trackStation("34782", "Union", 5),
                          trackStation("34544", "Pecos", 50),
                          trackStation("34560", "Westminster", 95) >> ]

\* the digits Math.sqrt keeps below the unit of length
SqrtScale == 10

\* the largest r with r * r <= n, between lo and hi
RECURSIVE RootBetween(_, _, _)
RootBetween(n, lo, hi) ==
    IF lo = hi THEN lo
    ELSE LET mid == (lo + hi + 1) \div 2 IN
         IF mid * mid <= n THEN RootBetween(n, mid, hi) ELSE RootBetween(n, lo, mid - 1)

\* Math.sqrt(latDiff * latDiff + lngDiff * lngDiff)
distanceTo(trainLat, trainLng, st) ==
    LET latDiff == trainLat - st.lat
        lngDiff == trainLng - st.lng
    IN RootBetween((latDiff * latDiff + lngDiff * lngDiff) * SqrtScale * SqrtScale, 0, 40000)

\* distances.sort((a, b) => a.dist - b.dist), a stable sort: the index of
\* the first station of least distance among the indices of `among`
nearestOf(dist, among) ==
    CHOOSE i \in among :
        \A k \in among : dist[i] < dist[k] \/ (dist[i] = dist[k] /\ i <= k)

\* an interpolation that weighs with the distance to the farther-indexed
\* station
interpolateMutant(pos1, pos2, d1, d2) ==
    IF d1 + d2 = 0 THEN NaN
    ELSE <<pos1 * (d1 + d2) + (pos2 - pos1) * d2, d1 + d2>>

\* station1.station.pos + (station2.station.pos - station1.station.pos) * ratio
\* with ratio = station1.dist / totalDist; 0 / 0 is NaN
interpolate(pos1, pos2, d1, d2) ==
    IF d1 + d2 = 0 THEN NaN
    ELSE <<pos1 * (d1 + d2) + (pos2 - pos1) * d1, d1 + d2>>

\* Math.max(1, Math.min(99, position))
clampPosition(position) ==
    IF position = NaN THEN NaN
    ELSE IF position[1] > 99 * position[2] THEN <<99, 1>>
    ELSE IF position[1] < position[2] THEN <<1, 1>>
    ELSE position

\* a fallback in the middle of nothing
fallbackPositionMutant == <<0, 1>>

\* return 50; // Fallback
fallbackPosition == <<50, 1>>

\* getTrainPosition(vehicle), `stations` being stationConfigs[lineId]
getTrainPosition(vehicle, trackStations) ==
    IF ~Truthy(vehicle.latitude) \/ ~Truthy(vehicle.longitude)
       \/ "lat" \notin DOMAIN trackStations[1]
    THEN fallbackPosition
    ELSE
      LET trainLat == ValueOf(vehicle.latitude)
          trainLng == ValueOf(vehicle.longitude)
          dist     == [i \in 1..Len(trackStations) |->
                          distanceTo(trainLat, trainLng, trackStations[i])]
          closest  == nearestOf(dist, 1..Len(trackStations))
          secondClosest == nearestOf(dist, (1..Len(trackStations)) \ {closest})
          station1 == IF closest < secondClosest THEN closest ELSE secondClosest
          station2 == IF closest < secondClosest THEN secondClosest ELSE closest
      IN clampPosition(interpolate(trackStations[station1].pos, trackStations[station2].pos,
                                   dist[station1], dist[station2]))

\* the latitudes and longitudes of a vehicle fix: none, 0, the stations of
\* the N line, points between and beyond them
TrackLatitudes ==
    {Undefined, Num(0)}
    \cup {Num(x) : x \in {397000, 397539, 397600, 397809, 398500, 399158, 399233, 399308, 400000}}

TrackLongitudes ==
    {Undefined, Num(0)}
    \cup {Num(x) : x \in {-1050500, -1050000, -1049900, -1049886, -1049872, -1049693, -1049500}}

InitTrack ==
    /\ AppIdle
    /\ TransitIdle
    /\ call \in [lineId : LineIds,
                 vehicle : [latitude : TrackLatitudes, longitude : TrackLongitudes]]
    /\ result = NoResult

\* the marker of the vehicle is placed on the track of its line
PlaceMarker ==
    /\ result = NoResult
    /\ result' = getTrainPosition(call.vehicle, stationConfigs[call.lineId])
    /\ UNCHANGED <<call, transitVars, appOnlyVars>>

NextTrack == PlaceMarker

SpecTrack == InitTrack /\ [][NextTrack]_vars

\* the marker has been placed
placed == result # NoResult

\* the fix has a latitude and a longitude, and the stations of the line
\* have coordinates
fixUsable ==
    /\ IsNum(call.vehicle.latitude)
    /\ IsNum(call.vehicle.longitude)
    /\ "lat" \in DOMAIN stationConfigs[call.lineId][1]

(***************************************************************************)
(* C18.  The position of a marker is a number between 1 and 99, and it is  *)
(* exactly 50 when the fix has no latitude or no longitude or when the     *)
(* stations of the line have no coordinates.                               *)
(***************************************************************************)
C18_PositionInRange ==
    placed =>
        /\ result # NaN
        /\ result[2] > 0
        /\ result[1] >= 1 * result[2]
        /\ result[1] <= 99 * result[2]
        /\ (\/ call.vehicle.latitude = Undefined
            \/ call.vehicle.longitude = Undefined
            \/ "lat" \notin DOMAIN stationConfigs[call.lineId][1])
           => result = <<50, 1>>

\* a fix north of the last station of the N line is placed between the last
\* two stations
C18_Witness ==
    /\ placed
    /\ call.lineId = "117N"
    /\ call.vehicle.latitude = Num(400000)
    /\ call.vehicle.longitude = Num(-1049500)
    /\ result # <<50, 1>>
    /\ result[1] > 70 * result[2]

\* the distance of the fix to station i of its line
fixDistance(i) ==
    distanceTo(ValueOf(call.vehicle.latitude), ValueOf(call.vehicle.longitude),
               stationConfigs[call.lineId][i])

(***************************************************************************)
(* C19.  For a usable fix the position is interpolated between the two     *)
(* stations nearest to the fix, taken in the order of the station list:    *)
(* it is pos1 + (pos2 - pos1) * d1 / (d1 + d2), held between 1 and 99,     *)
(* with d1 the distance to the station earlier in the list; at equal       *)
(* distances between positions 20 and 70 the formula gives 45.             *)
(***************************************************************************)
C19_Interpolation ==
    (placed /\ fixUsable /\ Truthy(call.vehicle.latitude) /\ Truthy(call.vehicle.longitude)) =>
        LET sts == stationConfigs[call.lineId] IN
        /\ \E i, j \in 1..Len(sts) :
              /\ i < j
              /\ \A k \in (1..Len(sts)) \ {i, j} :
                    fixDistance(k) >= fixDistance(i) /\ fixDistance(k) >= fixDistance(j)
              /\ LET d1 == fixDistance(i)
                     d2 == fixDistance(j)
                     total == d1 + d2
                     value == sts[i].pos * total + (sts[j].pos - sts[i].pos) * d1
                 IN /\ total > 0
                    /\ result = IF value > 99 * total THEN <<99, 1>>
                                ELSE IF value < 1 * total THEN <<1, 1>>
                                ELSE <<value, total>>
        /\ \A i \in 1..Len(sts) :
              fixDistance(i) > 0 =>
                  LET p == clampPosition(interpolate(20, 70, fixDistance(i), fixDistance(i)))
                  IN p[1] = 45 * p[2]

\* a fix half-way between the last two stations of the N line, placed
\* half-way between their positions 70 and 97
C19_Witness ==
    /\ placed
    /\ call.lineId = "117N"
    /\ call.vehicle.latitude = Num(399233)
    /\ call.vehicle.longitude = Num(-1049886)
    /\ fixDistance(3) = fixDistance(4)
    /\ 2 * result[1] = (70 + 97) * result[2]

\* the call whose result a state field holds; 0 before the first result
appliedReq(x) == IF x = Undefined THEN 0 ELSE x.req

(***************************************************************************)
(* C1.  Stale-response guard: once the result of a request is in the       *)
(* state, no result of an older request for the same feed replaces it.     *)
(***************************************************************************)
C1_NoStaleOverwrite ==
    /\ appliedReq(weather') >= appliedReq(weather)
    /\ appliedReq(vehiclePositions') >= appliedReq(vehiclePositions)
    /\ appliedReq(driveTime'.morning) >= appliedReq(driveTime.morning)
    /\ appliedReq(driveTime'.evening) >= appliedReq(driveTime.evening)
    /\ \A l \in LineIds : appliedReq(transitData'[l]) >= appliedReq(transitData[l])

C1_StaleResponseDiscarded == [][C1_NoStaleOverwrite]_vars

====
